---- MODULE Spec2Model ----
(***************************************************************************)
(* Inventory restock advisor: the incoming-stock ledger, the retrying      *)
(* request primitive, the restock / urgency formulas and the prediction    *)
(* run, modelled from the TypeScript sources.                              *)
(*                                                                         *)
(* Time is counted in ticks of half a day (TicksPerDay ticks make one day).*)
(* Quantities that the source computes in floating point (perDaySales,     *)
(* reorderQuantity) are kept exact as a numerator over the window length.  *)
(***************************************************************************)
EXTENDS Integers, Sequences, FiniteSets, TLC

VARIABLES
    ledger,     \* TrackIncoming collection of one shop: variantId -> record
    now,        \* the clock, in ticks
    lastSync,   \* the last persistInventoryForProducts call: input, ledger before, outcome
    call,       \* one makeGraphQLRequest call (recursion unrolled)
    calc,       \* one evaluation of the restock / urgency formulas
    run,        \* one generateRestockPredictions run
    inv,        \* one inventory fetch of getAllProducts (fetchInventoryForProducts)
    pager,      \* one paginating fetch (catalog or orders)
    ocall,      \* one OrderService.makeGraphQLRequest call (recursion unrolled)
    period,     \* one calculateSalesForPeriod evaluation
    range,      \* one getAllOrdersByRange call
    cred,       \* the stored credential of a shop and the ProductService cache of it
    syncs       \* two persistInventoryForProducts calls of one store side by side

vars == <<ledger, now, lastSync, call, calc, run, inv, pager, ocall, period, range, cred, syncs>>

-----------------------------------------------------------------------------
(* Bounds of the model *)

MaxIncoming == 3
MaxClock == 3
MaxRetryAfter == 1
MaxSales == 2
MaxStock == 2
MaxQty == 2
MaxPredictionDays == 1
MaxDaysPassed == 0
MaxOrders == 1

Variants == {1, 2}
LedgerVariants == {1}
IncomingValues == (0 .. MaxIncoming) \cup {-1}

EmptyMap == [v \in {} |-> 0]

-----------------------------------------------------------------------------
(* The incoming-stock ledger *)

RECURSIVE SumQuantity(_)
SumQuantity(h) ==
    IF h = <<>> THEN 0 ELSE Head(h).quantity + SumQuantity(Tail(h))

\* Array.prototype.sort with (a, b) => a.date - b.date: a stable sort
RECURSIVE insertByDate(_, _)
insertByDate(e, s) ==
    IF s = <<>> THEN <<e>>
    ELSE IF Head(s).date <= e.date THEN <<Head(s)>> \o insertByDate(e, Tail(s))
    ELSE <<e>> \o s

RECURSIVE sortByDate(_)
sortByDate(h) ==
    IF h = <<>> THEN <<>>
    ELSE insertByDate(h[Len(h)], sortByDate(SubSeq(h, 1, Len(h) - 1)))

\* consumeOldestFirst dropping an entry only when it is smaller than the remainder
RECURSIVE consumeStrict(_, _)
consumeStrict(h, remaining) ==
    IF h = <<>> THEN <<>>
    ELSE LET entry == Head(h) IN
         IF remaining <= 0
         THEN <<entry>> \o consumeStrict(Tail(h), remaining)
         ELSE IF entry.quantity < remaining
         THEN consumeStrict(Tail(h), remaining - entry.quantity)
         ELSE <<[entry EXCEPT !.quantity = entry.quantity - remaining]>>
                  \o consumeStrict(Tail(h), 0)

\* the whole decrease taken from the oldest entry
consumeFromFirst(h, remaining) ==
    IF h = <<>> THEN <<>>
    ELSE <<[Head(h) EXCEPT !.quantity = Head(h).quantity - remaining]>> \o Tail(h)

\* the for-loop of recalculateDecreasedHistory
RECURSIVE consumeOldestFirst(_, _)
consumeOldestFirst(h, remaining) ==
    IF h = <<>> THEN <<>>
    ELSE LET entry == Head(h) IN
         IF remaining <= 0
         THEN <<entry>> \o consumeOldestFirst(Tail(h), remaining)
         ELSE IF entry.quantity <= remaining
         THEN consumeOldestFirst(Tail(h), remaining - entry.quantity)
         ELSE <<[entry EXCEPT !.quantity = entry.quantity - remaining]>>
                  \o consumeOldestFirst(Tail(h), 0)

\* existing: <<>> when there is no record, <<record>> otherwise
recalculateDecreasedHistory(existing, oldIncoming, newIncoming) ==
    LET decreaseAmount == oldIncoming - newIncoming
        history == sortByDate(IF existing = <<>> THEN <<>>
                              ELSE existing[1].incomingHistory)
        result == consumeOldestFirst(history, decreaseAmount)
    IN  [i \in 1 .. Len(result) |->
            [result[i] EXCEPT !.totalOrderQuantity = newIncoming]]

\* buildUpdateOperation pushing the new total instead of the increase
buildUpdateOperationPushTotal(existing, oldIncoming, newIncoming, at) ==
    LET entry(q) == [date |-> at, quantity |-> q, totalOrderQuantity |-> newIncoming]
    IN  [incoming |-> newIncoming,
         incomingLastChangedAt |->
             IF newIncoming # oldIncoming \/ existing = <<>> THEN at
             ELSE existing[1].incomingLastChangedAt,
         push |-> IF newIncoming > oldIncoming THEN <<entry(newIncoming)>> ELSE <<>>,
         setHistory |->
             IF newIncoming < oldIncoming
             THEN <<sortByDate(recalculateDecreasedHistory(existing, oldIncoming, newIncoming))>>
             ELSE <<>>]

\* buildUpdateOperation stamping incomingLastChangedAt on every reconciliation
buildUpdateOperationAlwaysStamp(existing, oldIncoming, newIncoming, at) ==
    LET entry(q) == [date |-> at, quantity |-> q, totalOrderQuantity |-> newIncoming]
    IN  [incoming |-> newIncoming,
         incomingLastChangedAt |-> at,
         push |-> IF newIncoming > oldIncoming
                  THEN <<entry(newIncoming - oldIncoming)>> ELSE <<>>,
         setHistory |->
             IF newIncoming < oldIncoming
             THEN <<sortByDate(recalculateDecreasedHistory(existing, oldIncoming, newIncoming))>>
             ELSE <<>>]

\* The update document: the $set of the scalar fields, an optional $push of one
\* history entry and an optional $set of the whole history.
buildUpdateOperation(existing, oldIncoming, newIncoming, at) ==
    LET entry(q) == [date |-> at, quantity |-> q, totalOrderQuantity |-> newIncoming]
        push ==
            IF oldIncoming = 0 /\ newIncoming > 0 THEN <<entry(newIncoming)>>
            ELSE IF newIncoming > oldIncoming THEN <<entry(newIncoming - oldIncoming)>>
            ELSE <<>>
        setHistory ==
            IF ~(oldIncoming = 0 /\ newIncoming > 0)
               /\ ~(newIncoming > oldIncoming)
               /\ newIncoming < oldIncoming
            THEN <<sortByDate(recalculateDecreasedHistory(existing, oldIncoming, newIncoming))>>
            ELSE <<>>
        incomingLastChangedAt ==
            IF (oldIncoming = 0 /\ newIncoming > 0)
               \/ newIncoming > oldIncoming
               \/ newIncoming < oldIncoming
            THEN at
            ELSE IF existing = <<>> THEN at ELSE existing[1].incomingLastChangedAt
    IN  [incoming |-> newIncoming,
         incomingLastChangedAt |-> incomingLastChangedAt,
         push |-> push,
         setHistory |-> setHistory]

\* products -> variantMap: variants without id, inventory item or product are skipped
extractVariants(snapshot) ==
    LET kept == {v \in DOMAIN snapshot : snapshot[v].inventoryItemId # 0}
    IN  [v \in kept |-> snapshot[v].incoming]

fetchExistingVariantMap(variantIds, coll) ==
    [v \in (variantIds \cap DOMAIN coll) |-> coll[v]]

existingOf(existingMap, v) ==
    IF v \in DOMAIN existingMap THEN <<existingMap[v]>> ELSE <<>>

\* buildBulkOperations without the deleteMany
buildBulkOperationsKeepZero(variantMap, existingMap, at) ==
    LET oldIncomingOf(v) ==
            IF v \in DOMAIN existingMap THEN existingMap[v].incoming ELSE 0
        upserts == {v \in DOMAIN variantMap : ~(variantMap[v] <= 0)}
    IN  [updates |-> [v \in upserts |->
                        buildUpdateOperation(existingOf(existingMap, v),
                                             oldIncomingOf(v), variantMap[v], at)],
         variantsToDelete |-> {}]

\* bulkOps: one updateOne (upsert) per variant with newIncoming > 0, and one
\* deleteMany over the variants with newIncoming <= 0 that have a record
buildBulkOperations(variantMap, existingMap, at) ==
    LET oldIncomingOf(v) ==
            IF v \in DOMAIN existingMap THEN existingMap[v].incoming ELSE 0
        upserts == {v \in DOMAIN variantMap : ~(variantMap[v] <= 0)}
        variantsToDelete ==
            {v \in DOMAIN variantMap : variantMap[v] <= 0 /\ v \in DOMAIN existingMap}
    IN  [updates |-> [v \in upserts |->
                        buildUpdateOperation(existingOf(existingMap, v),
                                             oldIncomingOf(v), variantMap[v], at)],
         variantsToDelete |-> variantsToDelete]

\* updateOne with the pushed entry put at the head of the history
applyUpdateOnePrepend(coll, v, op) ==
    LET oldHistory == IF v \in DOMAIN coll THEN coll[v].incomingHistory ELSE <<>>
        newHistory == IF op.setHistory # <<>> THEN op.setHistory[1]
                      ELSE op.push \o oldHistory
        rec == [incoming |-> op.incoming,
                incomingLastChangedAt |-> op.incomingLastChangedAt,
                incomingHistory |-> newHistory]
    IN  [w \in (DOMAIN coll) \cup {v} |-> IF w = v THEN rec ELSE coll[w]]

\* MongoDB updateOne with upsert: $set of the fields, $push appends, $set of the
\* history replaces it; a missing record is created with an empty history first
applyUpdateOne(coll, v, op) ==
    LET oldHistory == IF v \in DOMAIN coll THEN coll[v].incomingHistory ELSE <<>>
        newHistory == IF op.setHistory # <<>> THEN op.setHistory[1]
                      ELSE oldHistory \o op.push
        rec == [incoming |-> op.incoming,
                incomingLastChangedAt |-> op.incomingLastChangedAt,
                incomingHistory |-> newHistory]
    IN  [w \in (DOMAIN coll) \cup {v} |-> IF w = v THEN rec ELSE coll[w]]

applyDeleteMany(coll, ids) ==
    [w \in (DOMAIN coll) \ ids |-> coll[w]]

\* bulkWrite(bulkOps, { ordered: false }): every operation is attempted; the
\* ones in failedUpdates / deleteFails fail, the others are applied
bulkWrite(coll, ops, failedUpdates, deleteFails) ==
    LET applied == (DOMAIN ops.updates) \ failedUpdates
        afterUpdates ==
            [w \in (DOMAIN coll) \cup applied |->
                IF w \in applied THEN applyUpdateOne(coll, w, ops.updates[w])[w]
                ELSE coll[w]]
    IN  IF deleteFails THEN afterUpdates
        ELSE applyDeleteMany(afterUpdates, ops.variantsToDelete)

\* the ledger after persistInventoryForProducts(snapshot)
persistInventoryForProducts(coll, snapshot, at, failedUpdates, deleteFails) ==
    LET variantMap == extractVariants(snapshot)
        existingMap == fetchExistingVariantMap(DOMAIN variantMap, coll)
        ops == buildBulkOperations(variantMap, existingMap, at)
    IN  IF DOMAIN variantMap = {} THEN coll
        ELSE IF DOMAIN ops.updates = {} /\ ops.variantsToDelete = {} THEN coll
        ELSE bulkWrite(coll, ops, failedUpdates, deleteFails)

\* a variant without inventory item keeps the default incoming of 0
SnapshotVariants ==
    {sv \in [inventoryItemId : {0, 1}, incoming : IncomingValues] :
        sv.inventoryItemId = 0 => sv.incoming = 0}

Snapshots(VS) == UNION {[S -> SnapshotVariants] : S \in SUBSET VS}

NoSync ==
    [snapshot |-> EmptyMap, before |-> EmptyMap, at |-> 0,
     failedUpdates |-> {}, deleteFails |-> FALSE, count |-> 0,
     skipped |-> FALSE]

IdleCall == [pc |-> "idle"]
IdleCalc == [pc |-> "idle"]
IdleRun == [pc |-> "idle"]
IdleInv == [pc |-> "idle"]
IdlePager == [pc |-> "idle"]
IdleOrderCall == [pc |-> "idle"]
IdlePeriod == [pc |-> "idle"]
IdleRange == [pc |-> "idle"]
IdleSyncs == [pc |-> "idle"]
IdleCred == [pc |-> "idle"]

\* one catalog sync reaching persistInventoryForProducts
Sync ==
    \E snapshot \in Snapshots(LedgerVariants), failedUpdates \in SUBSET LedgerVariants, deleteFails \in BOOLEAN :
        LET variantMap == extractVariants(snapshot)
            ops == buildBulkOperations(variantMap,
                       fetchExistingVariantMap(DOMAIN variantMap, ledger), now)
        IN  /\ failedUpdates \subseteq DOMAIN ops.updates
            /\ deleteFails => ops.variantsToDelete # {}
            /\ ledger' = persistInventoryForProducts(ledger, snapshot, now,
                                                     failedUpdates, deleteFails)
            /\ lastSync' = [snapshot |-> snapshot, before |-> ledger, at |-> now,
                            failedUpdates |-> failedUpdates,
                            deleteFails |-> deleteFails, count |-> 1,
                            skipped |-> FALSE]
            /\ UNCHANGED <<now, call, calc, run, inv, pager, ocall, period, range, cred, syncs>>

Tick ==
    /\ now < MaxClock
    /\ now' = now + 1
    /\ UNCHANGED <<ledger, lastSync, call, calc, run, inv, pager, ocall, period, range, cred, syncs>>

InitLedger ==
    /\ ledger = EmptyMap
    /\ now = 0
    /\ lastSync = NoSync
    /\ syncs = IdleSyncs
    /\ cred = IdleCred
    /\ ocall = IdleOrderCall
    /\ period = IdlePeriod
    /\ range = IdleRange
    /\ inv = IdleInv
    /\ pager = IdlePager
    /\ call = IdleCall
    /\ calc = IdleCalc
    /\ run = IdleRun

NextLedger == Sync \/ Tick

SpecLedger == InitLedger /\ [][NextLedger]_vars

-----------------------------------------------------------------------------
(* The retrying request primitive, ProductService.makeGraphQLRequest *)

MAX_RETRIES == 5
INITIAL_RETRY_DELAY == 2000
MAX_RETRY_DELAY == 60000
RATE_LIMIT_DELAY == 1000
RETRY_AFTER_BUFFER == 1000

NoHeader == -1

\* What the remote answers to one request:
\*   ok        HTTP 2xx without errors
\*   throttled HTTP 2xx whose errors hold a THROTTLED code or message
\*   gqlError  HTTP 2xx whose errors hold no throttling error
\*   http429   the request rejects with response status 429
\*   httpError the request rejects otherwise
\* retryAfter: the retry-after header in seconds, NoHeader when absent.
\* used / limit: the call-limit header "used/limit", used = NoHeader when absent.
ThrottlingKinds == {"throttled", "http429"}

Responses ==
    [kind : ThrottlingKinds, retryAfter : {NoHeader} \cup (0 .. MaxRetryAfter),
     used : {NoHeader}, limit : {10}]
    \cup [kind : {"gqlError", "httpError"}, retryAfter : {NoHeader},
          used : {NoHeader}, limit : {10}]
    \cup [kind : {"ok"}, retryAfter : {NoHeader},
          used : {NoHeader, 6, 8, 9, 10, 17, 19}, limit : {10, 20}]

Min(a, b) == IF a <= b THEN a ELSE b

RECURSIVE Pow2(_)
Pow2(n) == IF n <= 0 THEN 1 ELSE 2 * Pow2(n - 1)

\* the backoff without its exponential growth
backoffDelayConstant(retryCount) == INITIAL_RETRY_DELAY

\* Math.min(INITIAL_RETRY_DELAY * Math.pow(2, retryCount), MAX_RETRY_DELAY)
backoffDelay(retryCount) ==
    Min(INITIAL_RETRY_DELAY * Pow2(retryCount), MAX_RETRY_DELAY)

\* the retry guard off by one, either way
retriesRemainOneLess(retryCount) == retryCount < MAX_RETRIES - 1
retriesRemainOneMore(retryCount) == retryCount <= MAX_RETRIES

\* the guard `retryCount < this.MAX_RETRIES` of both retry branches
retriesRemain(retryCount) == retryCount < MAX_RETRIES

\* the header string is truthy when present, "0" included
throttledWaitTime(resp, retryCount) ==
    IF resp.retryAfter # NoHeader
    THEN resp.retryAfter * 1000 + RETRY_AFTER_BUFFER
    ELSE backoffDelay(retryCount)

http429WaitTime(resp, retryCount) ==
    IF resp.retryAfter # NoHeader
    THEN resp.retryAfter * 1000
    ELSE backoffDelay(retryCount)

\* one delay for both thresholds
quotaDelayFlat(resp) ==
    IF resp.used = NoHeader THEN 0
    ELSE IF resp.used * 100 > 80 * resp.limit THEN RATE_LIMIT_DELAY
    ELSE 0

\* extra delay after a success, from the call-limit header: usagePercent =
\* (used / limit) * 100 compared with 90 and 80
quotaDelay(resp) ==
    IF resp.used = NoHeader THEN 0
    ELSE IF resp.used * 100 > 90 * resp.limit THEN RATE_LIMIT_DELAY * 2
    ELSE IF resp.used * 100 > 80 * resp.limit THEN RATE_LIMIT_DELAY
    ELSE 0

NewCall ==
    [pc |-> "ready", retryCount |-> 0, requests |-> 0, kinds |-> <<>>,
     lastWait |-> 0, lastHint |-> NoHeader, quotaDelay |-> 0, paced |-> 0,
     quota |-> [used |-> NoHeader, limit |-> 10], error |-> "none"]

\* makeGraphQLRequest retrying after every failed response
handleResponseRetryAll(c, resp) ==
    LET seen == [c EXCEPT !.kinds = Append(c.kinds, resp.kind)]
        wait == IF resp.kind = "throttled" THEN throttledWaitTime(resp, c.retryCount)
                ELSE http429WaitTime(resp, c.retryCount)
    IN  IF resp.kind = "ok"
        THEN [seen EXCEPT !.pc = "returned", !.quotaDelay = quotaDelay(resp),
                             !.quota = [used |-> resp.used, limit |-> resp.limit]]
        ELSE IF retriesRemain(c.retryCount)
        THEN [seen EXCEPT !.pc = "ready", !.retryCount = c.retryCount + 1,
                          !.lastWait = wait, !.lastHint = resp.retryAfter]
        ELSE [seen EXCEPT !.pc = "threw", !.error = resp.kind]

\* the body of makeGraphQLRequest after the response resp arrived
handleResponse(c, resp) ==
    LET seen == [c EXCEPT !.kinds = Append(c.kinds, resp.kind)]
        retry(wait) ==
            [seen EXCEPT !.pc = "ready", !.retryCount = c.retryCount + 1,
                         !.lastWait = wait, !.lastHint = resp.retryAfter]
        throw == [seen EXCEPT !.pc = "threw", !.error = resp.kind]
    IN  CASE resp.kind = "ok" ->
                [seen EXCEPT !.pc = "returned", !.quotaDelay = quotaDelay(resp),
                             !.quota = [used |-> resp.used, limit |-> resp.limit]]
          [] resp.kind = "throttled" ->
                IF retriesRemain(c.retryCount)
                THEN retry(throttledWaitTime(resp, c.retryCount))
                ELSE throw
          [] resp.kind = "gqlError" -> throw
          [] resp.kind = "http429" ->
                IF retriesRemain(c.retryCount)
                THEN retry(http429WaitTime(resp, c.retryCount))
                ELSE throw
          [] OTHER -> throw

\* the pacing delay, then httpService.post
IssueRequest ==
    /\ call.pc = "ready"
    /\ call' = [call EXCEPT !.pc = "inflight", !.requests = call.requests + 1,
                            !.paced = IF call.retryCount > 0
                                      THEN RATE_LIMIT_DELAY * 2
                                      ELSE RATE_LIMIT_DELAY]
    /\ UNCHANGED <<ledger, now, lastSync, calc, run, inv, pager, ocall, period, range, cred, syncs>>

Respond ==
    /\ call.pc = "inflight"
    /\ \E resp \in Responses : call' = handleResponse(call, resp)
    /\ UNCHANGED <<ledger, now, lastSync, calc, run, inv, pager, ocall, period, range, cred, syncs>>

InitRetry ==
    /\ ledger = EmptyMap
    /\ now = 0
    /\ lastSync = NoSync
    /\ syncs = IdleSyncs
    /\ cred = IdleCred
    /\ ocall = IdleOrderCall
    /\ period = IdlePeriod
    /\ range = IdleRange
    /\ inv = IdleInv
    /\ pager = IdlePager
    /\ call = NewCall
    /\ calc = IdleCalc
    /\ run = IdleRun

NextRetry == IssueRequest \/ Respond

SpecRetry == InitRetry /\ [][NextRetry]_vars

-----------------------------------------------------------------------------
(* The restock and urgency formulas, RestockPredictionService *)

SHIPMENT_DAYS == 15
LEAD_TIME == 15

\* A sales figure of a window is the pair totalSales / days; perDaySales is
\* totalSales / days, and every quantity derived from it is kept as a numerator
\* over the same days, so comparisons are exact cross-multiplications.
WindowDays == <<7, 14, 30>>

NoLookup == [daysPassed |-> 0, incomingQuantityForSinglePO |-> 0]

\* calculateRestockQuantity whose third check is the plain >= alone
restockWithoutTolerance(totalSales, days, predictionDays, availableStock, incomingStock, lookup) ==
    LET reorderQuantity == totalSales * predictionDays
        covered == availableStock * days
                       >= totalSales * (SHIPMENT_DAYS - lookup.daysPassed)
        poCovers == lookup.incomingQuantityForSinglePO * days >= reorderQuantity
    IN  IF incomingStock > 0
        THEN IF (covered /\ poCovers)
                \/ (covered /\ availableStock * days >= reorderQuantity)
                \/ poCovers
             THEN 0 ELSE reorderQuantity
        ELSE IF reorderQuantity < (availableStock + 1) * days THEN 0
             ELSE reorderQuantity + reorderQuantity - availableStock * days

\* calculateRestockQuantity returning the shortfall once, not reorder + shortfall
restockShortfallOnly(totalSales, days, predictionDays, availableStock, incomingStock, lookup) ==
    LET reorderQuantity == totalSales * predictionDays
        covered == availableStock * days
                       >= totalSales * (SHIPMENT_DAYS - lookup.daysPassed)
        poCovers == lookup.incomingQuantityForSinglePO * days >= reorderQuantity
    IN  IF incomingStock > 0
        THEN IF (covered /\ poCovers)
                \/ (covered /\ availableStock * days >= reorderQuantity)
                \/ lookup.incomingQuantityForSinglePO * days > reorderQuantity - days
             THEN 0 ELSE reorderQuantity
        ELSE IF reorderQuantity < (availableStock + 1) * days THEN 0
             ELSE reorderQuantity - availableStock * days

\* shipmentDays - daysPassed
daysRemainingForIncomingStockOf(daysPassed) == SHIPMENT_DAYS - daysPassed

\* perDaySales * daysRemainingForIncomingStock, as a numerator over `days`
totalConsumptionDuringShipmentOf(totalSales, daysPassed) ==
    totalSales * daysRemainingForIncomingStockOf(daysPassed)

\* calculateRestockQuantity without the zero result of its no-incoming branch
restockWithoutZeroFloor(totalSales, days, predictionDays, availableStock, incomingStock, lookup) ==
    LET reorderQuantity == totalSales * predictionDays
        covered == availableStock * days
                       >= totalConsumptionDuringShipmentOf(totalSales, lookup.daysPassed)
        poCovers == lookup.incomingQuantityForSinglePO * days >= reorderQuantity
    IN  IF incomingStock > 0
        THEN IF (covered /\ poCovers)
                \/ (covered /\ availableStock * days >= reorderQuantity)
                \/ lookup.incomingQuantityForSinglePO * days > reorderQuantity - days
             THEN 0 ELSE reorderQuantity
        ELSE reorderQuantity + reorderQuantity - availableStock * days

\* numerator over `days` of the restock quantity
calculateRestockQuantity(totalSales, days, predictionDays, availableStock, incomingStock, lookup) ==
    LET reorderQuantity == totalSales * predictionDays          \* over days
        daysPassed == lookup.daysPassed
        incomingQuantityForSinglePO == lookup.incomingQuantityForSinglePO
        totalConsumptionDuringShipment ==
            totalConsumptionDuringShipmentOf(totalSales, daysPassed)
    IN  IF incomingStock > 0
        THEN IF availableStock * days >= totalConsumptionDuringShipment
                /\ incomingQuantityForSinglePO * days >= reorderQuantity
             THEN 0
             ELSE IF availableStock * days >= totalConsumptionDuringShipment
                     /\ availableStock * days >= reorderQuantity
             THEN 0
             ELSE IF incomingQuantityForSinglePO * days >= reorderQuantity
                     \/ incomingQuantityForSinglePO * days > reorderQuantity - days
             THEN 0
             ELSE reorderQuantity
        ELSE IF reorderQuantity < availableStock * days
                \/ reorderQuantity < (availableStock + 1) * days
             THEN 0
             ELSE reorderQuantity + reorderQuantity - availableStock * days

\* calculateUrgencyLevel with the boundaries in the less urgent class
urgencyStrictBoundaries(availableStock, incomingStock, totalSales, days) ==
    IF availableStock < 0 THEN "critical"
    ELSE IF totalSales = 0 THEN "low"
    ELSE LET stock == (availableStock + incomingStock) * days
         IN  IF stock < LEAD_TIME * totalSales THEN "critical"
             ELSE IF stock < (LEAD_TIME + 7) * totalSales THEN "high"
             ELSE IF stock < 30 * totalSales THEN "medium"
             ELSE "low"

calculateUrgencyLevel(availableStock, incomingStock, totalSales, days) ==
    IF availableStock < 0 THEN "critical"
    ELSE IF totalSales = 0 THEN "low"
    ELSE LET stock == (availableStock + incomingStock) * days   \* daysOfStockLeft * totalSales
         IN  IF stock <= LEAD_TIME * totalSales THEN "critical"
             ELSE IF stock <= (LEAD_TIME + 7) * totalSales THEN "high"
             ELSE IF stock <= 30 * totalSales THEN "medium"
             ELSE "low"

\* variant: [available, incoming]; sales: <<total7, total14, total30>>;
\* lookup: what getRemainingDaysForIncoming returns for the variant
createPrediction(variant, sales, predictionDays, lookup) ==
    LET availableStock == variant.available
        incomingStock == variant.incoming
        restock(w) == calculateRestockQuantity(sales[w], WindowDays[w], predictionDays,
                                               availableStock, incomingStock, lookup)
    IN  [sales |-> sales,
         availableStock |-> availableStock,
         incomingStock |-> incomingStock,
         totalInventory |-> availableStock + incomingStock,
         remainingDaysToReachIncomingStock |->
             IF incomingStock > 0 THEN lookup.daysPassed ELSE 0,
         recommendedRestock |-> [w \in 1 .. 3 |-> restock(w)],
         \* (r7/7 + r14/14 + r30/30) / 3, as a numerator over 630
         recommendedAverageStock |-> 30 * restock(1) + 15 * restock(2) + 7 * restock(3),
         urgencyLevel |-> calculateUrgencyLevel(availableStock, incomingStock,
                                                sales[1], WindowDays[1])]

SalesValues == (0 .. MaxSales) \cup {7, 35, 70}
StockValues == (-1 .. MaxStock) \cup {15, 20, 22, 30, 31, 50, 100}
IncomingStockValues == (0 .. MaxQty) \cup {200}
POValues == (0 .. MaxQty) \cup {149, 150}
PredictionDaysValues == (1 .. MaxPredictionDays) \cup {15}
DaysPassedValues == (0 .. MaxDaysPassed) \cup {5, 16}

CalcInputs ==
    {c \in [pc : {"input"},
            sales : {t \in [1 .. 3 -> SalesValues] : t[1] <= t[2] /\ t[2] <= t[3]},
            predictionDays : PredictionDaysValues,
            variant : [available : StockValues, incoming : IncomingStockValues],
            lookup : [daysPassed : DaysPassedValues,
                      incomingQuantityForSinglePO : POValues]] :
        c.variant.incoming = 0 => c.lookup = NoLookup}

Compute ==
    /\ calc.pc = "input"
    /\ calc' = [pc |-> "done", sales |-> calc.sales,
                predictionDays |-> calc.predictionDays,
                variant |-> calc.variant, lookup |-> calc.lookup,
                prediction |-> createPrediction(calc.variant, calc.sales,
                                                calc.predictionDays, calc.lookup)]
    /\ UNCHANGED <<ledger, now, lastSync, call, run, inv, pager, ocall, period, range, cred, syncs>>

InitRestock ==
    /\ ledger = EmptyMap
    /\ now = 0
    /\ lastSync = NoSync
    /\ syncs = IdleSyncs
    /\ cred = IdleCred
    /\ ocall = IdleOrderCall
    /\ period = IdlePeriod
    /\ range = IdleRange
    /\ inv = IdleInv
    /\ pager = IdlePager
    /\ call = IdleCall
    /\ calc \in CalcInputs
    /\ run = IdleRun

NextRestock == Compute

SpecRestock == InitRestock /\ [][NextRestock]_vars

-----------------------------------------------------------------------------
(* One run of RestockPredictionService.generateRestockPredictions *)

TicksPerDay == 2

\* the lookup reading the newest entry of any non-empty history
getRemainingDaysLatestEntry(coll, variantId, at) ==
    IF variantId \in DOMAIN coll /\ Len(coll[variantId].incomingHistory) >= 1
    THEN LET h == coll[variantId].incomingHistory
         IN  [daysPassed |-> (at - h[Len(h)].date) \div TicksPerDay,
              incomingQuantityForSinglePO |-> h[Len(h)].quantity]
    ELSE NoLookup

\* floor((now - date) / one day) of the single history entry, zeros otherwise
getRemainingDaysForIncoming(coll, variantId, at) ==
    IF variantId \in DOMAIN coll /\ Len(coll[variantId].incomingHistory) = 1
    THEN [daysPassed |-> (at - coll[variantId].incomingHistory[1].date) \div TicksPerDay,
          incomingQuantityForSinglePO |-> coll[variantId].incomingHistory[1].quantity]
    ELSE NoLookup

\* the UTC day a time falls on
utcDay(t) == t \div TicksPerDay

\* the cutoff one day earlier: a window of days + 1 days
getCutoffDateExclusive(days, at) == (utcDay(at) - days) * TicksPerDay

\* Date.UTC(year, month, date - (days - 1), 0, 0, 0, 0): midnight of the day
\* days - 1 days before today
getCutoffDateUTC(days, at) == (utcDay(at) - (days - 1)) * TicksPerDay

\* An order-line fact: variantId (0 when missing), createdAt, quantity.
\* The loop of calculateSalesForPeriod, for one key of the salesByVariant map.
RECURSIVE salesByVariant(_, _, _)
salesByVariant(orders, cutoffTime, variantId) ==
    IF orders = <<>> THEN 0
    ELSE (IF Head(orders).createdAt >= cutoffTime /\ Head(orders).variantId # 0
             /\ Head(orders).variantId = variantId
          THEN Head(orders).quantity ELSE 0)
         + salesByVariant(Tail(orders), cutoffTime, variantId)

\* the salesByVariant map after the loop: a key per variant id of a counted fact
salesMapOf(orders, cutoffTime) ==
    LET keys == {orders[i].variantId : i \in {j \in DOMAIN orders :
                    orders[j].createdAt >= cutoffTime /\ orders[j].variantId # 0}}
    IN  [k \in keys |-> salesByVariant(orders, cutoffTime, k)]

\* perDaySales taken over one day less than the window
createSalesDataShortWindow(products, salesMap, days) ==
    [v \in DOMAIN products |->
        LET totalSales == IF v \in DOMAIN salesMap THEN salesMap[v] ELSE 0
        IN  [totalSales |-> totalSales,
             perDaySales |-> [num |-> totalSales, den |-> days - 1]]]

\* one entry per catalog variant: totalSales = salesByVariant.get(variant.id) || 0
\* and perDaySales = totalSales / days, kept as the fraction num / den
createSalesData(products, salesMap, days) ==
    [v \in DOMAIN products |->
        LET totalSales == IF v \in DOMAIN salesMap THEN salesMap[v] ELSE 0
        IN  [totalSales |-> totalSales,
             perDaySales |-> [num |-> totalSales, den |-> days]]]

calculateSalesForPeriod(products, orders, days, at) ==
    createSalesData(products, salesMapOf(orders, getCutoffDateUTC(days, at)), days)

\* the two promises of fetchData with their .catch handlers: a rejection
\* becomes an error object
productsResponseOf(outcome, products) ==
    IF outcome = "resolved" THEN [error |-> FALSE, products |-> products]
    ELSE [error |-> TRUE, products |-> EmptyMap]

ordersResponseOf(outcome, orders) ==
    IF outcome = "resolved" THEN [error |-> FALSE, orders |-> orders]
    ELSE [error |-> TRUE, orders |-> <<>>]

\* fetchData with a failing order fetch failing the whole fetch
fetchDataAllOrNothing(productsResponse, ordersResponse) ==
    IF productsResponse.error \/ ordersResponse.error
    THEN [productsNull |-> TRUE, products |-> EmptyMap, orders |-> <<>>]
    ELSE [productsNull |-> FALSE, products |-> productsResponse.products,
          orders |-> ordersResponse.orders]

fetchData(productsResponse, ordersResponse) ==
    IF productsResponse.error
    THEN [productsNull |-> TRUE, products |-> EmptyMap, orders |-> <<>>]
    ELSE [productsNull |-> FALSE,
          products |-> productsResponse.products,
          orders |-> IF ordersResponse.error THEN <<>> ELSE ordersResponse.orders]

\* the ledger lookups of the prediction step: one per variant with incoming > 0
lookupsOf(products, coll, at) ==
    [v \in DOMAIN products |->
        IF products[v].incoming > 0
        THEN getRemainingDaysForIncoming(coll, v, at)
        ELSE NoLookup]

generatePredictions(products, sales7, sales14, sales30, predictionDays, coll, at) ==
    [v \in DOMAIN products |->
        createPrediction(products[v],
                         <<sales7[v].totalSales, sales14[v].totalSales, sales30[v].totalSales>>,
                         predictionDays,
                         lookupsOf(products, coll, at)[v])]

\* the lookups reading the collection as it was before this run's sync
collectionBeforeSync(beforeSync, afterSync) == beforeSync

\* fetchData, and in it getAllProducts with its persisting step, is awaited
\* before generatePredictions: the lookups read the collection the sync left
collectionAtLookup(beforeSync, afterSync) == afterSync

\* lookupFails: a ledger read of the prediction step rejects
generateRestockPredictions(data, predictionDays, coll, at, lookupFails) ==
    IF data.productsNull \/ DOMAIN data.products = {}
    THEN [status |-> "returned", predictions |-> EmptyMap]
    ELSE IF lookupFails /\ \E v \in DOMAIN data.products : data.products[v].incoming > 0
    THEN [status |-> "threw", predictions |-> EmptyMap]
    ELSE [status |-> "returned",
          predictions |->
              generatePredictions(data.products,
                  calculateSalesForPeriod(data.products, data.orders, 7, at),
                  calculateSalesForPeriod(data.products, data.orders, 14, at),
                  calculateSalesForPeriod(data.products, data.orders, 30, at),
                  predictionDays, coll, at)]

\* the variants of the fetched snapshot, after the inventory fetch
CatalogVariants ==
    [inventoryItemId : {1}, available : {-1, MaxStock}, incoming : {0, MaxQty}]
    \cup {[inventoryItemId |-> 0, available |-> 0, incoming |-> 0]}

Catalogs == UNION {[S -> CatalogVariants] : S \in SUBSET Variants}

\* created today, or seven days ago
OrderFacts ==
    [variantId : {1, 3}, createdAt : {MaxClock, MaxClock - 7 * TicksPerDay},
     quantity : {7}]

OrderLists == UNION {[1 .. n -> OrderFacts] : n \in 0 .. MaxOrders}

RunLedgers ==
    {EmptyMap,
     [v \in {1} |->
        [incoming |-> MaxQty, incomingLastChangedAt |-> 0,
         incomingHistory |->
            <<[date |-> 0, quantity |-> MaxQty, totalOrderQuantity |-> MaxQty]>>]]}

ProductFailures == {"noShop", "catalogFetch", "inventoryFetch"}

\* getAllProducts(store, status, false, false) settles: it rejects when the shop
\* is missing or a fetch fails; otherwise it persists the snapshot and rejects
\* when the ledger read or a bulkWrite operation fails
GetAllProducts ==
    /\ run.pc = "fetching"
    /\ run.productsOutcome = "pending"
    /\ \/ \E f \in ProductFailures :
            /\ run' = [run EXCEPT !.productsOutcome = "rejected", !.productsFailure = f]
            /\ UNCHANGED <<ledger, lastSync>>
       \/ \E findFails \in BOOLEAN, failedUpdates \in SUBSET Variants, deleteFails \in BOOLEAN :
            LET variantMap == extractVariants(run.catalog)
                ops == buildBulkOperations(variantMap,
                           fetchExistingVariantMap(DOMAIN variantMap, ledger), now)
                reachesFind == DOMAIN variantMap # {}
                reachesWrite == reachesFind /\ ~findFails
                                  /\ (DOMAIN ops.updates # {} \/ ops.variantsToDelete # {})
                threw == findFails \/ failedUpdates # {} \/ deleteFails
            IN  /\ findFails => reachesFind /\ failedUpdates = {} /\ ~deleteFails
                /\ failedUpdates # {} => reachesWrite /\ failedUpdates \subseteq DOMAIN ops.updates
                /\ deleteFails => reachesWrite /\ ops.variantsToDelete # {}
                /\ ledger' = IF findFails THEN ledger
                             ELSE persistInventoryForProducts(ledger, run.catalog, now,
                                                              failedUpdates, deleteFails)
                /\ lastSync' = IF findFails THEN lastSync
                               ELSE [snapshot |-> run.catalog, before |-> ledger, at |-> now,
                                     failedUpdates |-> failedUpdates,
                                     deleteFails |-> deleteFails, count |-> 1,
                                     skipped |-> FALSE]
                /\ run' = [run EXCEPT
                             !.productsOutcome = IF threw THEN "rejected" ELSE "resolved",
                             !.productsFailure = IF threw THEN "persist" ELSE "none"]
    /\ UNCHANGED <<now, call, calc, inv, pager, ocall, period, range, cred, syncs>>

\* getStoredOrders(store) settles: with the orders, with an error object, or rejected
GetStoredOrders ==
    /\ run.pc = "fetching"
    /\ run.ordersOutcome = "pending"
    /\ \E outcome \in {"resolved", "errorObject", "rejected"} :
        run' = [run EXCEPT !.ordersOutcome = outcome]
    /\ UNCHANGED <<ledger, now, lastSync, call, calc, inv, pager, ocall, period, range, cred, syncs>>

\* both promises settled: the rest of fetchData and of generateRestockPredictions
FinishRun ==
    /\ run.pc = "fetching"
    /\ run.productsOutcome # "pending"
    /\ run.ordersOutcome # "pending"
    /\ \E lookupFails \in BOOLEAN :
        LET data == fetchData(productsResponseOf(run.productsOutcome, run.catalog),
                              ordersResponseOf(run.ordersOutcome, run.orders))
            coll == collectionAtLookup(IF lastSync.count = 1 THEN lastSync.before
                                       ELSE ledger, ledger)
        IN  /\ lookupFails =>
                (~data.productsNull
                 /\ \E v \in DOMAIN data.products : data.products[v].incoming > 0)
            /\ run' = [run EXCEPT
                         !.pc = "done",
                         !.lookupFailed = lookupFails,
                         !.lookups = IF data.productsNull \/ lookupFails THEN EmptyMap
                                     ELSE lookupsOf(data.products, coll, now),
                         !.result = generateRestockPredictions(data, run.predictionDays,
                                                               coll, now, lookupFails)]
    /\ UNCHANGED <<ledger, now, lastSync, call, calc, inv, pager, ocall, period, range, cred, syncs>>

InitRun ==
    /\ ledger \in RunLedgers
    /\ now = MaxClock
    /\ lastSync = NoSync
    /\ syncs = IdleSyncs
    /\ cred = IdleCred
    /\ ocall = IdleOrderCall
    /\ period = IdlePeriod
    /\ range = IdleRange
    /\ inv = IdleInv
    /\ pager = IdlePager
    /\ call = IdleCall
    /\ calc = IdleCalc
    /\ run \in [pc : {"fetching"}, catalog : Catalogs, orders : OrderLists,
                predictionDays : {15},
                productsOutcome : {"pending"}, productsFailure : {"none"},
                ordersOutcome : {"pending"}, lookupFailed : {FALSE},
                lookups : {EmptyMap},
                result : {[status |-> "pending", predictions |-> EmptyMap]}]

NextRun == GetAllProducts \/ GetStoredOrders \/ FinishRun

SpecRun == InitRun /\ [][NextRun]_vars

-----------------------------------------------------------------------------
(* Properties of the prediction run, under SpecRun *)

\* C5: with the credential missing or the catalog fetch failed, the run surfaces
\* an explicit failure to its caller instead of returning a normal result.
C5_FetchFailureSurfaces ==
    (run.pc = "done" /\ run.productsFailure \in ProductFailures) =>
        run.result.status = "threw"

\* C6: with the ledger persistence step failed after a successful catalog and
\* inventory fetch, the run still returns one prediction per fetched variant.
C6_PersistFailureKeepsPredictions ==
    (run.pc = "done" /\ run.productsFailure = "persist") =>
        /\ run.result.status = "returned"
        /\ DOMAIN run.result.predictions = DOMAIN run.catalog

\* C7: with the order fetch failed and the catalog fetch succeeded, the run does
\* not fail: it returns one prediction per catalog variant, every windowed sales
\* figure zero and the urgency level derived from stock alone.
C7_OrderFailureDegrades ==
    (run.pc = "done" /\ run.ordersOutcome \in {"errorObject", "rejected"}
        /\ run.productsFailure = "none" /\ ~run.lookupFailed) =>
        /\ run.result.status = "returned"
        /\ DOMAIN run.result.predictions = DOMAIN run.catalog
        /\ \A v \in DOMAIN run.catalog :
            /\ run.result.predictions[v].sales = <<0, 0, 0>>
            /\ run.result.predictions[v].urgencyLevel =
                 IF run.catalog[v].available < 0 THEN "critical" ELSE "low"

C7_Witness ==
    /\ run.pc = "done"
    /\ run.ordersOutcome = "rejected"
    /\ run.productsFailure = "none"
    /\ Len(run.orders) >= 1 /\ run.orders[1].variantId = 1 /\ run.orders[1].createdAt = MaxClock
    /\ DOMAIN run.result.predictions = Variants
    /\ run.result.predictions[1].urgencyLevel = "low"
    /\ run.result.predictions[2].urgencyLevel = "critical"
    /\ run.catalog[1].incoming > 0

\* the variants whose incoming went from 0 to positive in this run: no record
\* before the sync, a positive incoming in the fetched snapshot
NewlyIncoming ==
    {v \in DOMAIN run.catalog :
        /\ run.catalog[v].inventoryItemId # 0
        /\ run.catalog[v].incoming > 0
        /\ v \notin DOMAIN lastSync.before}

\* C38: within one run the reconciliation of the fetched snapshot is complete
\* before the first ledger lookup: a variant whose incoming went from 0 to
\* positive in this run is looked up with its new one-entry history, daysPassed
\* = 0 and PO quantity = the new incoming.
C38_LookupAfterReconciliation ==
    /\ (run.pc = "fetching" /\ run.productsOutcome = "pending") => run.lookups = EmptyMap
    /\ (run.pc = "done" /\ run.result.status = "returned"
           /\ DOMAIN run.result.predictions # {}) =>
          /\ run.productsFailure = "none"
          /\ lastSync.count = 1
          /\ lastSync.snapshot = run.catalog
          /\ \A v \in NewlyIncoming :
                /\ v \in DOMAIN ledger
                /\ Len(ledger[v].incomingHistory) = 1
                /\ run.lookups[v] =
                      [daysPassed |-> 0,
                       incomingQuantityForSinglePO |-> run.catalog[v].incoming]
                /\ run.result.predictions[v].remainingDaysToReachIncomingStock = 0

C38_Witness ==
    /\ run.pc = "done"
    /\ run.result.status = "returned"
    /\ 1 \in NewlyIncoming
    /\ lastSync.before = EmptyMap
    /\ 1 \in DOMAIN run.lookups
    /\ run.lookups[1].incomingQuantityForSinglePO = MaxQty

-----------------------------------------------------------------------------
(* Properties of the ledger, under SpecLedger *)

PrefixSum(h, k) == SumQuantity(SubSeq(h, 1, k))

\* the variants whose updateOne of the last sync was applied
AppliedUpdates ==
    {v \in DOMAIN lastSync.snapshot :
        /\ lastSync.snapshot[v].inventoryItemId # 0
        /\ lastSync.snapshot[v].incoming > 0
        /\ v \notin lastSync.failedUpdates}

OldIncoming(v) ==
    IF v \in DOMAIN lastSync.before THEN lastSync.before[v].incoming ELSE 0

\* C1: whenever a record exists, the quantities of its history entries sum to
\* its incoming field, after any sequence of reconciliations applied one at a time.
C1_HistorySumsToIncoming ==
    \A v \in DOMAIN ledger :
        SumQuantity(ledger[v].incomingHistory) = ledger[v].incoming

C1_Witness ==
    /\ lastSync.count = 1
    /\ \E v \in AppliedUpdates :
        /\ v \in DOMAIN ledger
        /\ Len(ledger[v].incomingHistory) >= 2
        /\ OldIncoming(v) > ledger[v].incoming

\* the decrease of the last sync for v: old history h, new history h2
FifoConsumed(h, h2, decreaseAmount, newIncoming) ==
    \E k \in 0 .. Len(h) - 1 :
        /\ PrefixSum(h, k) <= decreaseAmount
        /\ decreaseAmount < PrefixSum(h, k + 1)
        /\ Len(h2) = Len(h) - k
        /\ h2[1].quantity = h[k + 1].quantity - (decreaseAmount - PrefixSum(h, k))
        /\ \A j \in 1 .. Len(h2) :
            /\ h2[j].date = h[k + j].date
            /\ h2[j].totalOrderQuantity = newIncoming
            /\ j > 1 => h2[j].quantity = h[k + j].quantity

\* C2: a reconciliation with 0 < newIncoming < oldIncoming consumes the decrease
\* oldest-first: covered entries are removed, the first partly covered entry is
\* reduced by the remainder, newer entries keep their quantity, and every kept
\* entry has totalOrderQuantity = newIncoming; [5@1, 5@2] decreased by 7 is [3@2].
C2_DecreaseConsumesOldestFirst ==
    /\ \A v \in AppliedUpdates :
        LET newIncoming == lastSync.snapshot[v].incoming IN
        (newIncoming < OldIncoming(v)) =>
            FifoConsumed(lastSync.before[v].incomingHistory,
                         ledger[v].incomingHistory,
                         OldIncoming(v) - newIncoming, newIncoming)
    /\ recalculateDecreasedHistory(
           <<[incoming |-> 10, incomingLastChangedAt |-> 2,
              incomingHistory |->
                  <<[date |-> 1, quantity |-> 5, totalOrderQuantity |-> 5],
                    [date |-> 2, quantity |-> 5, totalOrderQuantity |-> 10]>>]>>,
           10, 3)
       = <<[date |-> 2, quantity |-> 3, totalOrderQuantity |-> 3]>>

C2_Witness ==
    \E v \in AppliedUpdates :
        /\ lastSync.snapshot[v].incoming < OldIncoming(v)
        /\ Len(lastSync.before[v].incomingHistory) = 2
        /\ lastSync.before[v].incomingHistory[1].quantity = 1
        /\ lastSync.before[v].incomingHistory[2].quantity = 2
        /\ Len(ledger[v].incomingHistory) = 1
        /\ ledger[v].incomingHistory[1].quantity = 1
        /\ ledger[v].incomingHistory[1].date = lastSync.before[v].incomingHistory[2].date

\* the record of v before the last sync came from one reconciliation 0 -> Q1
SingleOrderBefore(v) ==
    /\ v \in DOMAIN lastSync.before
    /\ lastSync.before[v].incomingHistory =
         <<[date |-> lastSync.before[v].incomingHistory[1].date,
            quantity |-> lastSync.before[v].incoming,
            totalOrderQuantity |-> lastSync.before[v].incoming]>>

\* C14: after reconcile(0 -> Q1) and reconcile(Q1 -> Q1+Q2) the record has two
\* history entries summing to Q1+Q2, each with totalOrderQuantity = Q1+Q2.
C14_BothEntriesCarryNewTotal ==
    \A v \in AppliedUpdates :
        LET newIncoming == lastSync.snapshot[v].incoming IN
        (SingleOrderBefore(v) /\ newIncoming > OldIncoming(v)) =>
            /\ Len(ledger[v].incomingHistory) = 2
            /\ SumQuantity(ledger[v].incomingHistory) = newIncoming
            /\ \A j \in 1 .. 2 :
                  ledger[v].incomingHistory[j].totalOrderQuantity = newIncoming

BeforeHistory(v) ==
    IF v \in DOMAIN lastSync.before THEN lastSync.before[v].incomingHistory ELSE <<>>

\* C15: a reconciliation with newIncoming > oldIncoming (0 without a record)
\* appends one entry dated now with quantity newIncoming - oldIncoming and
\* totalOrderQuantity newIncoming, keeps the existing entries and sets incoming.
C15_IncreaseAppendsOneEntry ==
    \A v \in AppliedUpdates :
        LET newIncoming == lastSync.snapshot[v].incoming IN
        (newIncoming > OldIncoming(v)) =>
            /\ ledger[v].incomingHistory =
                 BeforeHistory(v) \o
                    <<[date |-> lastSync.at,
                       quantity |-> newIncoming - OldIncoming(v),
                       totalOrderQuantity |-> newIncoming]>>
            /\ ledger[v].incoming = newIncoming

C15_Witness ==
    \E v \in AppliedUpdates :
        /\ Len(BeforeHistory(v)) = 2
        /\ OldIncoming(v) = 2
        /\ lastSync.snapshot[v].incoming = 3
        /\ lastSync.at > lastSync.before[v].incomingLastChangedAt
        /\ Len(ledger[v].incomingHistory) = 3

\* the variants the last sync reconciled with newIncoming <= 0
ZeroedVariants ==
    {v \in DOMAIN lastSync.snapshot :
        /\ lastSync.snapshot[v].inventoryItemId # 0
        /\ lastSync.snapshot[v].incoming <= 0}

SnapshotOf(v, q) == [w \in {v} |-> [inventoryItemId |-> 1, incoming |-> q]]

\* C16: a reconciliation with newIncoming <= 0 deletes the record, history
\* included: reconcile(0 -> Q) then reconcile(Q -> 0) leaves no record, and a
\* later positive incoming starts a fresh history of one entry.
C16_ZeroDeletesRecord ==
    /\ ~lastSync.deleteFails => \A v \in ZeroedVariants : v \notin DOMAIN ledger
    /\ \A v \in AppliedUpdates :
          v \notin DOMAIN lastSync.before =>
             ledger[v].incomingHistory =
                <<[date |-> lastSync.at,
                   quantity |-> lastSync.snapshot[v].incoming,
                   totalOrderQuantity |-> lastSync.snapshot[v].incoming]>>
    /\ \A q \in 1 .. MaxIncoming, z \in {0, -1} :
          LET created == persistInventoryForProducts(EmptyMap, SnapshotOf(1, q), 0, {}, FALSE)
              zeroed == persistInventoryForProducts(created, SnapshotOf(1, z), 1, {}, FALSE)
              again == persistInventoryForProducts(zeroed, SnapshotOf(1, q), 2, {}, FALSE)
          IN  /\ 1 \in DOMAIN created
              /\ zeroed = EmptyMap
              /\ again[1].incomingHistory =
                    <<[date |-> 2, quantity |-> q, totalOrderQuantity |-> q]>>

C16_Witness ==
    /\ ~lastSync.deleteFails
    /\ \E v \in ZeroedVariants :
          /\ v \in DOMAIN lastSync.before
          /\ Len(lastSync.before[v].incomingHistory) >= 2
          /\ lastSync.snapshot[v].incoming = 0
          /\ v \notin DOMAIN ledger

\* C17: a reconciliation with newIncoming = oldIncoming > 0 leaves the record's
\* incomingHistory and incomingLastChangedAt unchanged.
C17_NoChangeKeepsHistoryAndStamp ==
    \A v \in AppliedUpdates :
        (lastSync.snapshot[v].incoming = OldIncoming(v)) =>
            /\ ledger[v].incomingHistory = lastSync.before[v].incomingHistory
            /\ ledger[v].incomingLastChangedAt = lastSync.before[v].incomingLastChangedAt

C17_Witness ==
    \E v \in AppliedUpdates :
        /\ lastSync.snapshot[v].incoming = OldIncoming(v)
        /\ lastSync.at > lastSync.before[v].incomingLastChangedAt
        /\ Len(ledger[v].incomingHistory) >= 2
        /\ ledger[v].incomingLastChangedAt < lastSync.at

\* C18: after any sequence of reconciliations applied one at a time under a
\* non-decreasing clock, every record's incomingHistory is sorted ascending by date.
C18_HistorySortedByDate ==
    \A v \in DOMAIN ledger :
        \A i, j \in DOMAIN ledger[v].incomingHistory :
            i < j => ledger[v].incomingHistory[i].date <= ledger[v].incomingHistory[j].date

C18_Witness ==
    \E v \in DOMAIN ledger :
        /\ Len(ledger[v].incomingHistory) >= 2
        /\ ledger[v].incomingHistory[1].date < ledger[v].incomingHistory[2].date
        /\ v \in AppliedUpdates
        /\ lastSync.snapshot[v].incoming < OldIncoming(v)

\* C19: after any sequence of reconciliations applied one at a time, no history
\* entry of any record has a negative quantity.
C19_NoNegativeQuantity ==
    \A v \in DOMAIN ledger :
        \A i \in DOMAIN ledger[v].incomingHistory :
            ledger[v].incomingHistory[i].quantity >= 0

C19_Witness ==
    \E v \in AppliedUpdates :
        /\ lastSync.snapshot[v].incoming < OldIncoming(v)
        /\ Len(lastSync.before[v].incomingHistory) = 2
        /\ lastSync.before[v].incomingHistory[1].quantity = 2
        /\ Len(ledger[v].incomingHistory) = 2
        /\ ledger[v].incomingHistory[1].quantity = 1

\* C34: after a persisting sync that succeeds, the ledger holds a record for a
\* variant only if the synced snapshot holds the variant with incoming > 0: a
\* record whose variant left the snapshot or lost its inventory item is removed
\* like one whose incoming became 0.
C34_LedgerOnlyHoldsSyncedPositives ==
    (lastSync.count = 1 /\ lastSync.failedUpdates = {} /\ ~lastSync.deleteFails) =>
        \A v \in DOMAIN ledger :
            /\ v \in DOMAIN lastSync.snapshot
            /\ lastSync.snapshot[v].inventoryItemId # 0
            /\ lastSync.snapshot[v].incoming > 0

\* C37: in every state reached by reconciliations applied one at a time, a
\* ledger record that exists has incoming > 0 and a non-empty history whose
\* entries all have quantity >= 1.
C37_RecordsArePositive ==
    \A v \in DOMAIN ledger :
        /\ ledger[v].incoming > 0
        /\ ledger[v].incomingHistory # <<>>
        /\ \A i \in DOMAIN ledger[v].incomingHistory :
              ledger[v].incomingHistory[i].quantity >= 1

\* a decrease that consumed the oldest of two entries exactly
C37_Witness ==
    \E v \in AppliedUpdates :
        /\ v \in DOMAIN lastSync.before
        /\ Len(lastSync.before[v].incomingHistory) = 2
        /\ lastSync.before[v].incomingHistory[1].quantity
              = OldIncoming(v) - lastSync.snapshot[v].incoming
        /\ Len(ledger[v].incomingHistory) = 1
        /\ ledger[v].incoming = lastSync.snapshot[v].incoming

-----------------------------------------------------------------------------
(* The request primitive of the order fetcher, OrderService.makeGraphQLRequest, *)
(* run side by side with the catalog fetcher's on the same remote responses     *)

MAX_GRAPHQL_RETRIES == 5
GRAPHQL_RETRY_BASE_DELAY == 1000
ORDER_RETRY_AFTER_BUFFER == 500

NewOrderCall ==
    [pc |-> "ready", retryCount |-> 0, requests |-> 0, kinds |-> <<>>,
     lastWait |-> 0, error |-> "none"]

\* (parseInt(retryAfterHeader) * 1000) + 500, else the uncapped backoff
orderRetryAfterMs(resp, retryCount) ==
    IF resp.retryAfter # NoHeader
    THEN resp.retryAfter * 1000 + ORDER_RETRY_AFTER_BUFFER
    ELSE GRAPHQL_RETRY_BASE_DELAY * Pow2(retryCount)

\* the body of OrderService.makeGraphQLRequest after the response arrived: any
\* errors array throws, and the catch retries on HTTP status 429 only
orderHandleResponse(c, resp) ==
    LET seen == [c EXCEPT !.kinds = Append(c.kinds, resp.kind)]
        throw == [seen EXCEPT !.pc = "threw", !.error = resp.kind]
    IN  CASE resp.kind = "ok" -> [seen EXCEPT !.pc = "returned"]
          [] resp.kind \in {"throttled", "gqlError"} -> throw
          [] resp.kind = "http429" ->
                IF c.retryCount < MAX_GRAPHQL_RETRIES
                THEN [seen EXCEPT !.pc = "ready", !.retryCount = c.retryCount + 1,
                                  !.lastWait = orderRetryAfterMs(resp, c.retryCount)]
                ELSE throw
          [] OTHER -> throw

\* each primitive that is still going on posts its next request
IssueBoth ==
    /\ call.pc = "ready" \/ ocall.pc = "ready"
    /\ call' = IF call.pc = "ready"
               THEN [call EXCEPT !.pc = "inflight", !.requests = call.requests + 1,
                                 !.paced = IF call.retryCount > 0
                                           THEN RATE_LIMIT_DELAY * 2
                                           ELSE RATE_LIMIT_DELAY]
               ELSE call
    /\ ocall' = IF ocall.pc = "ready"
                THEN [ocall EXCEPT !.pc = "inflight", !.requests = ocall.requests + 1]
                ELSE ocall
    /\ UNCHANGED <<ledger, now, lastSync, calc, run, inv, pager, period, range, cred, syncs>>

\* the remote answers the pending requests alike
RespondBoth ==
    /\ call.pc = "inflight" \/ ocall.pc = "inflight"
    /\ \E resp \in Responses :
        /\ call' = IF call.pc = "inflight" THEN handleResponse(call, resp) ELSE call
        /\ ocall' = IF ocall.pc = "inflight" THEN orderHandleResponse(ocall, resp) ELSE ocall
    /\ UNCHANGED <<ledger, now, lastSync, calc, run, inv, pager, period, range, cred, syncs>>

InitOrderRetry ==
    /\ ledger = EmptyMap
    /\ now = 0
    /\ lastSync = NoSync
    /\ syncs = IdleSyncs
    /\ cred = IdleCred
    /\ period = IdlePeriod
    /\ range = IdleRange
    /\ inv = IdleInv
    /\ pager = IdlePager
    /\ call = NewCall
    /\ ocall = NewOrderCall
    /\ calc = IdleCalc
    /\ run = IdleRun

NextOrderRetry == IssueBoth \/ RespondBoth

SpecOrderRetry == InitOrderRetry /\ [][NextOrderRetry]_vars

-----------------------------------------------------------------------------
(* Properties of the two request primitives, under SpecOrderRetry *)

Settled(c) == c.pc \in {"returned", "threw"}

ThrottlingThenEnd(kinds) ==
    \A i \in 1 .. Len(kinds) :
        kinds[i] \in ThrottlingKinds \/ (i = Len(kinds) /\ kinds[i] = "ok")

\* C24: for the same remote responses, throttling signals followed by a success
\* or by exhaustion, the order fetcher's primitive and the catalog fetcher's
\* issue the same number of requests and end in the same outcome.
C24_SameThrottlingHandling ==
    (Settled(call) /\ Settled(ocall)
        /\ ThrottlingThenEnd(call.kinds) /\ ThrottlingThenEnd(ocall.kinds)) =>
        /\ call.requests = ocall.requests
        /\ call.pc = ocall.pc

-----------------------------------------------------------------------------
(* Properties of the retrying request primitive, under SpecRetry *)

AllThrottling(kinds) == \A i \in 1 .. Len(kinds) : kinds[i] \in ThrottlingKinds

\* C3: N throttling signals (either kind, any mix) followed by a success, with
\* N <= MAX_RETRIES: exactly N + 1 requests are issued and the call returns;
\* while only throttling signals have arrived, N <= MAX_RETRIES of them, the
\* call is still going on.
C3_ThrottlesThenSuccess ==
    LET n == Len(call.kinds) IN
    /\ (n >= 1 /\ n <= MAX_RETRIES + 1 /\ call.kinds[n] = "ok"
            /\ AllThrottling(SubSeq(call.kinds, 1, n - 1)))
        => (call.pc = "returned" /\ call.requests = n)
    /\ (n <= MAX_RETRIES /\ AllThrottling(call.kinds))
        => (call.pc \in {"ready", "inflight"}
            /\ call.requests = n + (IF call.pc = "inflight" THEN 1 ELSE 0))

C3_Witness ==
    /\ call.pc = "returned"
    /\ call.requests = MAX_RETRIES + 1
    /\ \E i, j \in 1 .. MAX_RETRIES :
        call.kinds[i] = "throttled" /\ call.kinds[j] = "http429"

\* C4: one call never issues more than MAX_RETRIES + 1 requests; when every
\* attempt is throttled it raises after request MAX_RETRIES + 1; it never raises
\* on a throttling signal while retries remain.
C4_AtMostSixRequests ==
    LET n == Len(call.kinds) IN
    /\ call.requests <= MAX_RETRIES + 1
    /\ (n = MAX_RETRIES + 1 /\ AllThrottling(call.kinds))
        => (call.pc = "threw" /\ call.requests = MAX_RETRIES + 1)
    /\ (call.pc = "threw" /\ n >= 1 /\ call.kinds[n] \in ThrottlingKinds)
        => call.requests = MAX_RETRIES + 1

C4_Witness ==
    /\ call.pc = "threw"
    /\ call.requests = 6
    /\ AllThrottling(call.kinds)

\* min(initialDelay * 2^(n-1), maxDelay)
BackoffBound(n) == Min(INITIAL_RETRY_DELAY * Pow2(n - 1), MAX_RETRY_DELAY)

LastKind == call.kinds[Len(call.kinds)]

\* C21 as stated: the wait before the n-th retry, the pacing delay of the retry
\* included, is at least min(initialDelay * 2^(n-1), maxDelay), with or without
\* a retry-after hint.
C21_RetryWaitAtLeastBackoff ==
    (call.pc = "inflight" /\ call.retryCount >= 1) =>
        call.lastWait + call.paced >= BackoffBound(call.retryCount)

\* C21: the wait before the n-th retry is min(initialDelay * 2^(n-1), maxDelay)
\* when the throttling signal carried no retry-after hint, for every n up to the
\* retry maximum and either signal; with a hint the wait is at least the hint in
\* milliseconds, and nothing more is guaranteed.
C21_BackoffWithoutHint ==
    (call.retryCount >= 1) =>
        /\ call.retryCount <= MAX_RETRIES
        /\ call.lastHint = NoHeader => call.lastWait = BackoffBound(call.retryCount)
        /\ call.lastHint # NoHeader => call.lastWait >= call.lastHint * 1000

C21_Witness ==
    /\ call.retryCount = MAX_RETRIES
    /\ call.lastHint = NoHeader
    /\ call.lastWait = 32000
    /\ \E i, j \in 1 .. MAX_RETRIES :
        call.kinds[i] = "throttled" /\ call.kinds[j] = "http429"

\* C22: on every throttling signal the wait before the retry is the retry-after
\* hint in milliseconds plus the safety buffer when a hint is present, and
\* min(initialDelay * 2^attempt, maxDelay) when none is.
C22_HintPlusBuffer ==
    (call.retryCount >= 1) =>
        call.lastWait =
            IF call.lastHint # NoHeader
            THEN call.lastHint * 1000 + RETRY_AFTER_BUFFER
            ELSE BackoffBound(call.retryCount)

\* C23: a response that fails for a non-throttling reason ends the call at once
\* with that error: it is the last response of the call, the call has thrown and
\* no request follows it, whatever the retries left.
C23_NonThrottlingFailsAtOnce ==
    \A i \in 1 .. Len(call.kinds) :
        call.kinds[i] \in {"gqlError", "httpError"} =>
            /\ i = Len(call.kinds)
            /\ call.pc = "threw"
            /\ call.error = call.kinds[i]
            /\ call.requests = i

C23_Witness ==
    /\ call.pc = "threw"
    /\ call.kinds = <<"throttled", "http429", "gqlError">>
    /\ call.requests = 3
    /\ call.retryCount = 2

\* C31: after a success the request primitive waits before returning when the
\* call-limit header shows a utilization above 80%, waits longer when it is
\* above 90%, and does not wait when it is 80% or less or the header is absent.
C31_QuotaDelayByUtilization ==
    call.pc = "returned" =>
        LET used == call.quota.used
            limit == call.quota.limit
        IN  /\ used = NoHeader => call.quotaDelay = 0
            /\ (used # NoHeader /\ 5 * used <= 4 * limit) => call.quotaDelay = 0
            /\ (used # NoHeader /\ 5 * used > 4 * limit /\ 10 * used <= 9 * limit) =>
                    call.quotaDelay = RATE_LIMIT_DELAY
            /\ (used # NoHeader /\ 10 * used > 9 * limit) =>
                    call.quotaDelay > RATE_LIMIT_DELAY

C31_Witness ==
    /\ call.pc = "returned"
    /\ call.quota = [used |-> 19, limit |-> 20]
    /\ call.quotaDelay = 2 * RATE_LIMIT_DELAY
    /\ call.retryCount >= 1

-----------------------------------------------------------------------------
(* Properties of the restock and urgency formulas, under SpecRestock *)

Windows == 1 .. 3
ReorderNum(w) == calc.sales[w] * calc.predictionDays      \* over WindowDays[w]
AvailNum(w) == calc.variant.available * WindowDays[w]
PONum(w) == calc.lookup.incomingQuantityForSinglePO * WindowDays[w]
ConsumptionNum(w) == calc.sales[w] * (SHIPMENT_DAYS - calc.lookup.daysPassed)
RestockNum(w) == calc.prediction.recommendedRestock[w]

\* the three conditions of the claim, without the extra check
ClaimedZero(w) ==
    \/ AvailNum(w) >= ConsumptionNum(w) /\ PONum(w) >= ReorderNum(w)
    \/ AvailNum(w) >= ConsumptionNum(w) /\ AvailNum(w) >= ReorderNum(w)
    \/ PONum(w) >= ReorderNum(w)

C9_NoIncomingRestock ==
    (calc.pc = "done" /\ calc.variant.incoming = 0) =>
        /\ \A w \in Windows :
            RestockNum(w) =
                IF ReorderNum(w) < (calc.variant.available + 1) * WindowDays[w]
                THEN 0
                ELSE 2 * ReorderNum(w) - AvailNum(w)
        /\ (calc.sales[1] = 35 /\ calc.predictionDays = 15) =>
            /\ calc.variant.available = 100 => RestockNum(1) = 0
            /\ calc.variant.available = 50 => RestockNum(1) = 100 * 7

C9_Witness ==
    /\ calc.pc = "done"
    /\ calc.variant.incoming = 0
    /\ calc.sales[1] = 35 /\ calc.predictionDays = 15
    /\ calc.variant.available = 50
    /\ RestockNum(1) = 100 * 7

\* daysOfStockLeft <= n, for perDaySales = sales[1] / 7 > 0
StockLeftAtMost(n) ==
    (calc.variant.available + calc.variant.incoming) * 7 <= n * calc.sales[1]

\* C10: urgency from the 7-day perDaySales: Critical when availableStock < 0;
\* else Low when perDaySales = 0; else Critical / High / Medium / Low as
\* daysOfStockLeft is <= 15, <= 22, <= 30, > 30, the boundaries 15, 22, 30
\* falling in the more urgent class.
C10_UrgencyLevels ==
    calc.pc = "done" =>
        LET u == calc.prediction.urgencyLevel
            total == calc.variant.available + calc.variant.incoming
        IN  /\ u = (IF calc.variant.available < 0 THEN "critical"
                    ELSE IF calc.sales[1] = 0 THEN "low"
                    ELSE IF StockLeftAtMost(15) THEN "critical"
                    ELSE IF StockLeftAtMost(22) THEN "high"
                    ELSE IF StockLeftAtMost(30) THEN "medium"
                    ELSE "low")
            /\ (calc.variant.available >= 0 /\ calc.sales[1] = 7) =>
                /\ total = 15 => u = "critical"
                /\ total = 22 => u = "high"
                /\ total = 30 => u = "medium"
                /\ total = 31 => u = "low"

C10_Witness ==
    /\ calc.pc = "done"
    /\ calc.sales[1] = 7 /\ calc.sales[2] > 7
    /\ calc.variant.available = 22 /\ calc.variant.incoming = 0
    /\ calc.prediction.urgencyLevel = "high"

\* C39: in the incoming-aware restock branch daysRemainingForShipment = 15 -
\* daysPassed and consumptionDuringShipment = perDaySales *
\* daysRemainingForShipment are never negative, whatever the age of the
\* ledger's single history entry.
C39_ShipmentFiguresNonNegative ==
    (calc.pc = "done" /\ calc.variant.incoming > 0) =>
        /\ daysRemainingForIncomingStockOf(calc.lookup.daysPassed) >= 0
        /\ \A w \in Windows :
              totalConsumptionDuringShipmentOf(calc.sales[w], calc.lookup.daysPassed) >= 0

\* C40: with perDaySales >= 0 and predictionDays >= 1 the recommended restock
\* quantity is never negative, a negative availableStock included: with
\* incoming > 0 it is 0 or reorderQuantity, with incoming = 0 it is 0 or
\* greater than reorderQuantity.
C40_RestockNeverNegative ==
    calc.pc = "done" =>
        \A w \in Windows :
            /\ calc.sales[w] >= 0 /\ calc.predictionDays >= 1
            /\ RestockNum(w) >= 0
            /\ calc.variant.incoming > 0 => RestockNum(w) \in {0, ReorderNum(w)}
            /\ calc.variant.incoming = 0 =>
                  (RestockNum(w) = 0 \/ RestockNum(w) > ReorderNum(w))

C40_Witness ==
    /\ calc.pc = "done"
    /\ calc.variant.incoming = 0
    /\ calc.variant.available = -1
    /\ calc.sales[1] = 0 /\ calc.sales[3] > 0
    /\ RestockNum(1) = WindowDays[1]
    /\ RestockNum(3) > ReorderNum(3)

-----------------------------------------------------------------------------
(* The inventory fetch of getAllProducts: fetchInventoryForProducts and      *)
(* fetchInventoryByInventoryItems                                            *)

INVENTORY_BATCH_SIZE == 50
INVENTORY_MAX_CONCURRENT_BATCHES == 2
POST_THROTTLE_DELAY == 5000

MaxItems == 1
MaxGroups == 4

\* how many variants with an inventory item the catalog holds
ItemCounts == (0 .. MaxItems) \cup {50, 51, 100, 101}

\* the quantities the remote holds for an inventory item
DefaultQuantities == [available |-> 0, incoming |-> 0, committed |-> 0, on_hand |-> 0]

\* the inventory levels the remote holds for an item, one per location
remoteLevels(item) ==
    [l \in 1 .. (1 + (item % 2)) |->
        [available |-> (item + l) % 3, incoming |-> item % 2,
         committed |-> 1, on_hand |-> l]]

\* aggregated[qty.name] += qty.quantity over the levels of a node
RECURSIVE aggregateLevels(_)
aggregateLevels(levels) ==
    IF levels = <<>> THEN DefaultQuantities
    ELSE LET rest == aggregateLevels(Tail(levels))
         IN  [name \in DOMAIN DefaultQuantities |-> Head(levels)[name] + rest[name]]

remoteQuantities(item) == aggregateLevels(remoteLevels(item))

\* the catalog's own quantity of a variant (inventoryQuantity)
inventoryQuantity(v) == 1 + (v % 3)

\* variant -> inventory_item_id (0: the variant has no inventory item): n
\* variants with an item each, then a variant sharing the item of variant 1,
\* then a variant without item
catalogOf(n, shared, bare) ==
    LET m == n + (IF shared THEN 1 ELSE 0)
    IN  [v \in 1 .. (m + (IF bare THEN 1 ELSE 0)) |->
            IF v <= n THEN v ELSE IF v <= m THEN 1 ELSE 0]

\* Array.from(new Set(inventoryItemIds)), in catalog order
uniqueInventoryItemIds(catalog) ==
    LET firsts == {v \in DOMAIN catalog :
                      catalog[v] # 0 /\ \A w \in 1 .. (v - 1) : catalog[w] # catalog[v]}
    IN  [k \in 1 .. Cardinality(firsts) |->
            catalog[CHOOSE v \in firsts : Cardinality({w \in firsts : w <= v}) = k]]

\* the slices of INVENTORY_BATCH_SIZE ids
RECURSIVE batchesOf(_)
batchesOf(ids) ==
    IF ids = <<>> THEN <<>>
    ELSE <<SubSeq(ids, 1, Min(INVENTORY_BATCH_SIZE, Len(ids)))>>
             \o batchesOf(SubSeq(ids, INVENTORY_BATCH_SIZE + 1, Len(ids)))

Range(seq) == {seq[i] : i \in DOMAIN seq}

\* the map of one fulfilled batch: a node per id the remote knows
fetchInventoryItemsBatch(batch, unknown) ==
    [i \in Range(batch) \ unknown |-> remoteQuantities(i)]

mergeInto(result, dataMap) ==
    [i \in (DOMAIN result) \cup (DOMAIN dataMap) |->
        IF i \in DOMAIN dataMap THEN dataMap[i] ELSE result[i]]

\* responses.forEach: fulfilled maps are merged, throttled batches collected,
\* any other rejection throws out of the loop
RECURSIVE settleResponses(_, _, _, _, _)
settleResponses(currentGroup, responses, unknown, index, acc) ==
    IF index > Len(currentGroup) THEN acc
    ELSE IF responses[index] = "fulfilled"
    THEN settleResponses(currentGroup, responses, unknown, index + 1,
             [acc EXCEPT !.result =
                 mergeInto(acc.result, fetchInventoryItemsBatch(currentGroup[index], unknown))])
    ELSE IF responses[index] = "throttled"
    THEN settleResponses(currentGroup, responses, unknown, index + 1,
             [acc EXCEPT !.throttled = TRUE,
                         !.retryBatches = acc.retryBatches \o <<currentGroup[index]>>])
    ELSE [acc EXCEPT !.threw = TRUE]

\* the throttled batches of a group dropped instead of put back
requeueDropped(retryBatches, queue) == queue

\* queue.unshift(...retryBatches)
requeue(retryBatches, queue) == retryBatches \o queue

\* inventoryItemMap.set(inventoryItemId, variantKey): the last variant of an
\* item is the one the map keeps
inventoryItemMapOf(catalog) ==
    [item \in {catalog[v] : v \in DOMAIN catalog} \ {0} |->
        CHOOSE v \in DOMAIN catalog :
            /\ catalog[v] = item
            /\ \A w \in DOMAIN catalog : catalog[w] = item => w <= v]

\* the defaults, then the data of each returned item written to the variant
\* that inventoryItemMap holds for it
applyInventory(catalog, inventoryData) ==
    LET inventoryItemMap == inventoryItemMapOf(catalog)
    IN  [v \in DOMAIN catalog |->
            IF catalog[v] \in DOMAIN inventoryData /\ inventoryItemMap[catalog[v]] = v
            THEN inventoryData[catalog[v]]
            ELSE DefaultQuantities]

\* the variant object built from a catalog page
variantObject(catalog, v) ==
    [id |-> v, inventory_item_id |-> catalog[v], inventory_quantity |-> inventoryQuantity(v)]

\* variant[name] || 0: a property the object does not have is undefined
fieldOrZero(variant, name) ==
    IF name \in DOMAIN variant THEN variant[name] ELSE 0

\* skipInventoryFetch: the quantities are read from the variant objects
skipInventoryFetch(catalog) ==
    [v \in DOMAIN catalog |->
        LET variant == variantObject(catalog, v)
        IN  [available |-> fieldOrZero(variant, "available_quantity"),
             incoming |-> fieldOrZero(variant, "incoming_quantity"),
             committed |-> fieldOrZero(variant, "committed_quantity"),
             on_hand |-> fieldOrZero(variant, "on_hand_quantity")]]

\* the whole queue dispatched at once
groupSizeAll(queue) == Len(queue)

\* queue.splice(0, INVENTORY_MAX_CONCURRENT_BATCHES)
groupSize(queue) == Min(INVENTORY_MAX_CONCURRENT_BATCHES, Len(queue))

\* a failed inventory fetch answered with the default quantities
fetchInventoryDefaultsOnError(catalog, threw, inventoryData) ==
    IF threw THEN [status |-> "returned", variants |-> applyInventory(catalog, EmptyMap)]
    ELSE [status |-> "returned", variants |-> applyInventory(catalog, inventoryData)]

\* the rest of fetchInventoryForProducts and of getAllProducts: both catch
\* blocks rethrow as UnauthorizedException
fetchInventoryForProducts(catalog, threw, inventoryData) ==
    IF threw THEN [status |-> "raised", variants |-> EmptyMap]
    ELSE [status |-> "returned", variants |-> applyInventory(catalog, inventoryData)]

batchKey(batch) == batch[1]

BatchResponses == {"fulfilled", "throttled", "failed"}

StartInventoryFetch ==
    /\ inv.pc = "start"
    /\ LET ids == uniqueInventoryItemIds(inv.catalog)
           batches == batchesOf(ids)
       IN  inv' = [inv EXCEPT
                     !.pc = IF ids = <<>> THEN "returned" ELSE "loop",
                     !.items = ids,
                     !.queue = batches,
                     !.requests = [k \in {batchKey(batches[i]) : i \in DOMAIN batches} |-> 0],
                     !.throttles = [k \in {batchKey(batches[i]) : i \in DOMAIN batches} |-> 0]]
    /\ UNCHANGED <<ledger, now, lastSync, call, calc, run, pager, ocall, period, range, cred, syncs>>

\* queue.splice(0, INVENTORY_MAX_CONCURRENT_BATCHES) and the requests of the group
DispatchGroup ==
    /\ inv.pc = "loop"
    /\ inv.queue # <<>>
    /\ inv.batchGroup < MaxGroups
    /\ LET size == groupSize(inv.queue)
           currentGroup == SubSeq(inv.queue, 1, size)
           keys == {batchKey(currentGroup[i]) : i \in DOMAIN currentGroup}
       IN  inv' = [inv EXCEPT
                     !.pc = "waiting",
                     !.batchGroup = inv.batchGroup + 1,
                     !.currentGroup = currentGroup,
                     !.responses = [i \in 1 .. size |-> "pending"],
                     !.inFlight = size,
                     !.queue = SubSeq(inv.queue, size + 1, Len(inv.queue)),
                     !.requests = [k \in DOMAIN inv.requests |->
                                     inv.requests[k] + (IF k \in keys THEN 1 ELSE 0)]]
    /\ UNCHANGED <<ledger, now, lastSync, call, calc, run, pager, ocall, period, range, cred, syncs>>

\* the same dispatch once the counters of the model have reached their bound:
\* the loop itself has no bound on its turns
DispatchGroupBeyond ==
    /\ inv.pc = "loop"
    /\ inv.queue # <<>>
    /\ inv.batchGroup >= MaxGroups
    /\ LET size == groupSize(inv.queue)
       IN  inv' = [inv EXCEPT
                     !.pc = "waiting",
                     !.currentGroup = SubSeq(inv.queue, 1, size),
                     !.responses = [i \in 1 .. size |-> "pending"],
                     !.inFlight = size,
                     !.queue = SubSeq(inv.queue, size + 1, Len(inv.queue))]
    /\ UNCHANGED <<ledger, now, lastSync, call, calc, run, pager, ocall, period, range, cred, syncs>>

\* one fetchInventoryItemsBatch promise of the group settles
BatchSettles ==
    /\ inv.pc = "waiting"
    /\ \E i \in DOMAIN inv.responses, response \in BatchResponses :
        /\ inv.responses[i] = "pending"
        /\ inv' = [inv EXCEPT !.responses[i] = response,
                              !.inFlight = inv.inFlight - 1]
    /\ UNCHANGED <<ledger, now, lastSync, call, calc, run, pager, ocall, period, range, cred, syncs>>

\* skipInventoryFetch = true: no inventory request at all
SkipInventoryFetch ==
    /\ inv.pc = "start"
    /\ inv' = [inv EXCEPT
                 !.pc = "done",
                 !.skipped = TRUE,
                 !.outcome = [status |-> "returned",
                              variants |-> skipInventoryFetch(inv.catalog)]]
    /\ UNCHANGED <<ledger, now, lastSync, call, calc, run, pager, ocall, period, range, cred, syncs>>

\* Promise.allSettled resolved: the forEach, the re-queue and the delay
SettleGroup ==
    /\ inv.pc = "waiting"
    /\ \A i \in DOMAIN inv.responses : inv.responses[i] # "pending"
    /\ LET responses == inv.responses IN
        LET acc == settleResponses(inv.currentGroup, responses, inv.unknown, 1,
                       [result |-> inv.result, retryBatches |-> <<>>,
                        throttled |-> FALSE, threw |-> FALSE])
            queue == requeue(acc.retryBatches, inv.queue)
            throttledKeys == {batchKey(acc.retryBatches[i]) : i \in DOMAIN acc.retryBatches}
        IN  inv' = IF acc.threw
                   THEN [inv EXCEPT !.pc = "threw", !.failed = TRUE,
                                    !.currentGroup = <<>>]
                   ELSE [inv EXCEPT
                           !.pc = IF queue = <<>> THEN "returned" ELSE "loop",
                           !.result = acc.result,
                           !.retryBatches = acc.retryBatches,
                           !.currentGroup = <<>>,
                           !.queue = queue,
                           !.throttles = [k \in DOMAIN inv.throttles |->
                                 Min(MaxGroups, inv.throttles[k]
                                        + (IF k \in throttledKeys THEN 1 ELSE 0))],
                           !.delay = IF queue = <<>> THEN 0
                                     ELSE IF acc.throttled THEN POST_THROTTLE_DELAY
                                     ELSE RATE_LIMIT_DELAY]
    /\ UNCHANGED <<ledger, now, lastSync, call, calc, run, pager, ocall, period, range, cred, syncs>>

\* fetchInventoryByInventoryItems has returned or thrown: getAllProducts settles
FinishInventoryFetch ==
    /\ inv.pc \in {"returned", "threw"}
    /\ inv' = [inv EXCEPT
                 !.pc = "done",
                 !.outcome = fetchInventoryForProducts(inv.catalog, inv.pc = "threw", inv.result)]
    /\ UNCHANGED <<ledger, now, lastSync, call, calc, run, pager, ocall, period, range, cred, syncs>>

InitInventory ==
    /\ ledger = EmptyMap
    /\ now = 0
    /\ lastSync = NoSync
    /\ syncs = IdleSyncs
    /\ cred = IdleCred
    /\ ocall = IdleOrderCall
    /\ period = IdlePeriod
    /\ range = IdleRange
    /\ call = IdleCall
    /\ calc = IdleCalc
    /\ run = IdleRun
    /\ pager = IdlePager
    /\ \E n \in ItemCounts, shared \in BOOLEAN, bare \in BOOLEAN, unknown \in {{}, {1}} :
        /\ shared => n >= 1
        /\ inv = [pc |-> "start", catalog |-> catalogOf(n, shared, bare), unknown |-> unknown,
               items |-> <<>>, queue |-> <<>>, currentGroup |-> <<>>,
               retryBatches |-> <<>>, responses |-> <<>>, result |-> EmptyMap,
               batchGroup |-> 0, requests |-> EmptyMap, throttles |-> EmptyMap,
               inFlight |-> 0, skipped |-> FALSE,
               delay |-> 0, failed |-> FALSE,
               outcome |-> [status |-> "pending", variants |-> EmptyMap]]

NextInventory ==
    \/ StartInventoryFetch
    \/ SkipInventoryFetch
    \/ DispatchGroup
    \/ BatchSettles
    \/ SettleGroup
    \/ FinishInventoryFetch

SpecInventory == InitInventory /\ [][NextInventory]_vars

\* the fetch with no bound on the turns of its loop; every request is answered
\* and every continuation that can run does run
NextInventoryLive == NextInventory \/ DispatchGroupBeyond

\* the catalogs of one batch
InitInventoryLive ==
    /\ InitInventory
    /\ Len(inv.catalog) <= MaxItems + 2

SpecInventoryLive ==
    InitInventoryLive /\ [][NextInventoryLive]_vars /\ WF_vars(NextInventoryLive)

-----------------------------------------------------------------------------
(* Properties of the inventory fetch, under SpecInventory *)

QueuedBatches == Range(inv.queue) \cup Range(inv.currentGroup)

\* C11: a throttled batch is put back at the front of the queue and requested
\* again, and an inventory fetch that returns holds the data of every batch: every
\* inventory item the remote knows is in the result with its quantities, each
\* batch having been requested once more than it was throttled.
C11_ThrottledBatchesRequeued ==
    /\ inv.pc = "loop" =>
         /\ Len(inv.retryBatches) <= Len(inv.queue)
         /\ SubSeq(inv.queue, 1, Len(inv.retryBatches)) = inv.retryBatches
    /\ inv.pc \in {"loop", "waiting", "returned"} =>
         \A b \in Range(batchesOf(inv.items)) :
            \/ b \in QueuedBatches
            \/ Range(b) \ inv.unknown \subseteq DOMAIN inv.result
    /\ (inv.pc = "returned" \/ (inv.pc = "done" /\ ~inv.failed)) =>
         /\ DOMAIN inv.result = Range(inv.items) \ inv.unknown
         /\ \A i \in DOMAIN inv.result : inv.result[i] = remoteQuantities(i)
         /\ \A k \in DOMAIN inv.requests : inv.requests[k] = inv.throttles[k] + 1

C11_Witness ==
    /\ inv.pc = "returned"
    /\ Len(inv.items) = 101
    /\ inv.throttles[51] >= 1
    /\ inv.throttles[1] = 0
    /\ 51 \in DOMAIN inv.result

\* C12: once a batch fails for a reason other than throttling no further batch
\* is dispatched, and getAllProducts raises instead of returning variants.
C12_FailedBatchAborts ==
    /\ [](inv.pc = "done" /\ inv.failed => inv.outcome.status = "raised")
    /\ [][inv.pc # "idle" /\ inv.failed =>
            /\ inv'.requests = inv.requests
            /\ inv'.batchGroup = inv.batchGroup]_vars

C12_Witness ==
    /\ inv.pc = "done"
    /\ inv.failed
    /\ inv.queue # <<>>
    /\ inv.requests[101] = 0
    /\ inv.outcome.status = "raised"

\* C27: with the inventory fetch skipped, getAllProducts sends no inventory
\* batch request and every variant is returned with available equal to the
\* catalog's own quantity of the variant, incoming = 0 and committed = 0.
C27_SkipModeUsesCatalogQuantity ==
    (inv.pc = "done" /\ inv.skipped) =>
        /\ \A k \in DOMAIN inv.requests : inv.requests[k] = 0
        /\ inv.outcome.status = "returned"
        /\ DOMAIN inv.outcome.variants = DOMAIN inv.catalog
        /\ \A v \in DOMAIN inv.catalog :
              /\ inv.outcome.variants[v].available = inventoryQuantity(v)
              /\ inv.outcome.variants[v].incoming = 0
              /\ inv.outcome.variants[v].committed = 0

PendingResponses == {i \in DOMAIN inv.responses : inv.responses[i] = "pending"}

\* C29: at most INVENTORY_MAX_CONCURRENT_BATCHES batch requests are in flight
\* at any moment, re-queued throttled batches included, and a group is
\* dispatched only when every request of the group before it has settled.
C29_BoundedConcurrency ==
    /\ [](inv.pc \in {"loop", "waiting"} =>
            /\ inv.inFlight = Cardinality(PendingResponses)
            /\ inv.inFlight <= INVENTORY_MAX_CONCURRENT_BATCHES
            /\ inv.inFlight <= 2)
    /\ [][inv'.batchGroup # inv.batchGroup =>
            /\ inv.inFlight = 0
            /\ PendingResponses = {}
            /\ inv'.inFlight = Len(inv'.currentGroup)]_vars

C29_Witness ==
    /\ inv.pc = "waiting"
    /\ inv.inFlight = 2
    /\ inv.batchGroup >= 2
    /\ \E i \in DOMAIN inv.currentGroup :
          inv.throttles[batchKey(inv.currentGroup[i])] >= 1

\* the sum of one named quantity over the first k locations of an item
RECURSIVE LocationTotal(_, _, _)
LocationTotal(item, name, k) ==
    IF k = 0 THEN 0
    ELSE remoteLevels(item)[k][name] + LocationTotal(item, name, k - 1)

\* C30: after an inventory fetch that succeeds, every variant whose inventory
\* item the remote returned carries available, incoming, committed and on_hand
\* equal to the item's quantities summed over its locations, also when several
\* variants share one item and when the items span several batches.
C30_VariantsCarryItemTotals ==
    (inv.pc = "done" /\ ~inv.skipped /\ inv.outcome.status = "returned") =>
        \A v \in DOMAIN inv.catalog :
            inv.catalog[v] \in DOMAIN inv.result =>
                \A name \in {"available", "incoming", "committed", "on_hand"} :
                    inv.outcome.variants[v][name] =
                        LocationTotal(inv.catalog[v], name, Len(remoteLevels(inv.catalog[v])))

\* C36: the inventory fetch always terminates: when the remote keeps answering
\* a batch with throttling signals the fetch ends by raising an error, it does
\* not put the batch back forever (under SpecInventoryLive).
C36_InventoryFetchTerminates ==
    <>(inv.pc = "done")

-----------------------------------------------------------------------------
(* The paginating fetchers: the page loop of ProductService.getAllProducts   *)
(* and of OrderService.fetchOrdersUsingGraphQL                               *)

MaxPages == 3
MaxPageItems == 2

MaxPageRequests == MaxPages + 1

NullCursor == 0

ORDER_PAGE_DELAY == 300

Fetchers == {"catalog", "orders"}

\* page i of the remote: its items, hasNextPage and endCursor (the cursor i)
pageOf(i, k, size) ==
    [items |-> [j \in 1 .. size |-> 10 * i + j],
     hasNextPage |-> i < k,
     endCursor |-> i]

PageLists ==
    UNION {{[i \in 1 .. k |-> pageOf(i, k, sizes[i])] :
               sizes \in [1 .. k -> 0 .. MaxPageItems]} : k \in 1 .. MaxPages}

\* the connection the remote serves for the `after` cursor
servedPage(pages, after) ==
    IF after + 1 \in DOMAIN pages THEN pages[after + 1]
    ELSE [items |-> <<>>, hasNextPage |-> FALSE, endCursor |-> NullCursor]

\* the cursor of the first request sent again with every request
nextCursorStale(fetcher, pageInfo) == NullCursor

\* catalog: pageInfo.endCursor || null; orders: hasNextPage ? endCursor ?? null : null
nextCursor(fetcher, pageInfo) ==
    IF fetcher = "catalog" THEN pageInfo.endCursor
    ELSE IF pageInfo.hasNextPage THEN pageInfo.endCursor ELSE NullCursor

pageDelay(fetcher, hasNextPage) ==
    IF ~hasNextPage THEN 0
    ELSE IF fetcher = "catalog" THEN RATE_LIMIT_DELAY * 2 ELSE ORDER_PAGE_DELAY

RECURSIVE concatItems(_)
concatItems(pages) ==
    IF pages = <<>> THEN <<>> ELSE Head(pages).items \o concatItems(Tail(pages))

\* while (hasNextPage): one makeGraphQLRequest with the current cursor
RequestPage ==
    /\ pager.pc = "loop"
    /\ pager.hasNextPage
    /\ Len(pager.requests) < MaxPageRequests
    /\ pager' = [pager EXCEPT !.pc = "waiting",
                              !.requests = Append(pager.requests, pager.cursor),
                              !.inFlight = pager.inFlight + 1]
    /\ UNCHANGED <<ledger, now, lastSync, call, calc, run, inv, ocall, period, range, cred, syncs>>

\* the request settles: it rejects, or (orders) answers without a connection,
\* or answers with the page after the cursor
RespondPage ==
    /\ pager.pc = "waiting"
    /\ \/ pager' = [pager EXCEPT !.pc = "threw", !.inFlight = pager.inFlight - 1]
       \/ /\ pager.fetcher = "orders"
          /\ pager' = [pager EXCEPT !.pc = "returned", !.broke = TRUE,
                                    !.inFlight = pager.inFlight - 1]
       \/ LET page == servedPage(pager.pages, pager.requests[Len(pager.requests)])
          IN  pager' = [pager EXCEPT
                          !.pc = IF page.hasNextPage THEN "loop" ELSE "returned",
                          !.inFlight = pager.inFlight - 1,
                          !.all = pager.all \o page.items,
                          !.hasNextPage = page.hasNextPage,
                          !.cursor = nextCursor(pager.fetcher, page),
                          !.delay = pageDelay(pager.fetcher, page.hasNextPage)]
    /\ UNCHANGED <<ledger, now, lastSync, call, calc, run, inv, ocall, period, range, cred, syncs>>

InitPager ==
    /\ ledger = EmptyMap
    /\ now = 0
    /\ lastSync = NoSync
    /\ syncs = IdleSyncs
    /\ cred = IdleCred
    /\ ocall = IdleOrderCall
    /\ period = IdlePeriod
    /\ range = IdleRange
    /\ call = IdleCall
    /\ calc = IdleCalc
    /\ run = IdleRun
    /\ inv = IdleInv
    /\ pager \in [pc : {"loop"}, fetcher : Fetchers, pages : PageLists,
                  hasNextPage : {TRUE}, cursor : {NullCursor}, requests : {<<>>},
                  inFlight : {0}, all : {<<>>}, broke : {FALSE}, delay : {0}]

NextPager == RequestPage \/ RespondPage

SpecPager == InitPager /\ [][NextPager]_vars

-----------------------------------------------------------------------------
(* Properties of the paginating fetchers, under SpecPager *)

\* C13: over k pages with hasNextPage true on all but the last, a fetcher that
\* returns has issued exactly k requests, the first with the null cursor and
\* each later one with the endCursor of the previous page, never two requests at
\* once, and holds the pages' items concatenated in page order.
C13_PaginationSequential ==
    /\ pager.inFlight <= 1
    /\ Len(pager.requests) <= Len(pager.pages)
    /\ \A j \in DOMAIN pager.requests :
          pager.requests[j] = IF j = 1 THEN NullCursor ELSE pager.pages[j - 1].endCursor
    /\ (pager.pc = "returned" /\ ~pager.broke) =>
         /\ Len(pager.requests) = Len(pager.pages)
         /\ pager.all = concatItems(pager.pages)

C13_Witness ==
    /\ pager.pc = "returned"
    /\ ~pager.broke
    /\ pager.fetcher = "orders"
    /\ Len(pager.pages) = 3
    /\ pager.requests = <<0, 1, 2>>
    /\ Len(pager.all) = 3 * MaxPageItems

-----------------------------------------------------------------------------
(* The ledger lookup of the prediction step, getRemainingDaysForIncoming *)

MaxLookupEntries == 2

HistoryEntries ==
    [date : 0 .. MaxClock, quantity : 1 .. MaxQty, totalOrderQuantity : {MaxQty}]

\* histories as the ledger keeps them: sorted ascending by date
LookupHistories ==
    {h \in UNION {[1 .. n -> HistoryEntries] : n \in 0 .. MaxLookupEntries} :
        \A i \in 1 .. (Len(h) - 1) : h[i].date <= h[i + 1].date}

\* the collection holds no record, or one record of variant 1
LookupLedgers ==
    {EmptyMap} \cup
    {[v \in {1} |-> [incoming |-> SumQuantity(h), incomingLastChangedAt |-> 0,
                     incomingHistory |-> h]] : h \in LookupHistories}

\* trackIncomingModel.findOne and the days computation, for one variant
Lookup ==
    /\ calc.pc = "idle"
    /\ \E variantId \in Variants :
        calc' = [pc |-> "looked", variantId |-> variantId,
                 lookup |-> getRemainingDaysForIncoming(ledger, variantId, now)]
    /\ UNCHANGED <<ledger, now, lastSync, call, run, inv, pager, ocall, period, range, cred, syncs>>

InitLookup ==
    /\ ledger \in LookupLedgers
    /\ now \in MaxClock .. (MaxClock + TicksPerDay)
    /\ lastSync = NoSync
    /\ syncs = IdleSyncs
    /\ cred = IdleCred
    /\ ocall = IdleOrderCall
    /\ period = IdlePeriod
    /\ range = IdleRange
    /\ call = IdleCall
    /\ calc = IdleCalc
    /\ run = IdleRun
    /\ inv = IdleInv
    /\ pager = IdlePager

NextLookup == Lookup

SpecLookup == InitLookup /\ [][NextLookup]_vars

-----------------------------------------------------------------------------
(* Properties of the ledger lookup, under SpecLookup *)

\* d = floor(diff / one day)
IsFloorDays(d, diff) ==
    /\ d * TicksPerDay <= diff
    /\ diff < (d + 1) * TicksPerDay

\* C20: the lookup returns daysPassed = floor((now - entry.date) / 1 day) and the
\* entry's quantity when the record has exactly one history entry, and
\* daysPassed = 0 and quantity = 0 when there is no record or the history has
\* zero or more than one entry.
C20_LookupSingleEntryOnly ==
    calc.pc = "looked" =>
        LET v == calc.variantId IN
        IF v \in DOMAIN ledger /\ Len(ledger[v].incomingHistory) = 1
        THEN /\ IsFloorDays(calc.lookup.daysPassed, now - ledger[v].incomingHistory[1].date)
             /\ calc.lookup.incomingQuantityForSinglePO = ledger[v].incomingHistory[1].quantity
        ELSE /\ calc.lookup.daysPassed = 0
             /\ calc.lookup.incomingQuantityForSinglePO = 0

C20_Witness ==
    /\ calc.pc = "looked"
    /\ calc.variantId = 1
    /\ 1 \in DOMAIN ledger
    /\ Len(ledger[1].incomingHistory) = 1
    /\ now - ledger[1].incomingHistory[1].date = 2 * TicksPerDay + 1
    /\ calc.lookup.daysPassed = 2

-----------------------------------------------------------------------------
(* The windowed sales summary, calculateSalesForPeriod *)

MaxSaleFacts == 2

\* createdAt values on both sides of the cutoff of each window
SaleTimes ==
    {MaxClock} \cup UNION {{getCutoffDateUTC(WindowDays[w], MaxClock) - 1,
                            getCutoffDateUTC(WindowDays[w], MaxClock)} : w \in 1 .. 3}

\* facts of catalog variant 1, a fact without variant (0), a fact of a variant
\* that is not in the catalog (3)
SaleFacts ==
    [variantId : {1}, createdAt : SaleTimes, quantity : 1 .. MaxQty]
    \cup [variantId : {0, 3}, createdAt : {MaxClock}, quantity : {1}]

SaleLists == UNION {[1 .. n -> SaleFacts] : n \in 0 .. MaxSaleFacts}

SaleProducts ==
    {[v \in S |-> [inventoryItemId |-> 1, available |-> 0, incoming |-> 0]] :
        S \in {{1}, {1, 2}}}

Summarize ==
    /\ period.pc = "start"
    /\ \E w \in 1 .. 3 :
        period' = [period EXCEPT
                     !.pc = "summed",
                     !.days = WindowDays[w],
                     !.summary = calculateSalesForPeriod(period.products, period.orders,
                                                         WindowDays[w], now)]
    /\ UNCHANGED <<ledger, now, lastSync, call, calc, run, inv, pager, ocall, range, cred, syncs>>

InitSales ==
    /\ ledger = EmptyMap
    /\ now \in MaxClock .. (MaxClock + 1)
    /\ lastSync = NoSync
    /\ syncs = IdleSyncs
    /\ cred = IdleCred
    /\ ocall = IdleOrderCall
    /\ range = IdleRange
    /\ inv = IdleInv
    /\ pager = IdlePager
    /\ call = IdleCall
    /\ calc = IdleCalc
    /\ run = IdleRun
    /\ period \in [pc : {"start"}, products : SaleProducts, orders : SaleLists,
                   days : {0}, summary : {EmptyMap}]

NextSales == Summarize

SpecSales == InitSales /\ [][NextSales]_vars

-----------------------------------------------------------------------------
(* Properties of the windowed sales summary, under SpecSales *)

\* c is UTC midnight of the day days - 1 days before the day of `at`
IsWindowCutoff(c, days, at) ==
    /\ c % TicksPerDay = 0
    /\ \E today \in {d \in (at - TicksPerDay + 1) .. at : d % TicksPerDay = 0} :
          c = today - (days - 1) * TicksPerDay

\* the facts of variant v created at or after c
CountedFacts(orders, v, c) ==
    {i \in DOMAIN orders : orders[i].variantId = v /\ orders[i].createdAt >= c}

RECURSIVE SumOver(_, _)
SumOver(orders, I) ==
    IF I = {} THEN 0
    ELSE LET i == CHOOSE j \in I : TRUE
         IN  orders[i].quantity + SumOver(orders, I \ {i})

\* C25: the summary of a window has one entry per catalog variant, whose
\* totalSales is the sum of the quantities of exactly the facts of that variant
\* created at or after the cutoff, UTC midnight windowDays - 1 days before today;
\* facts of other variants contribute to no entry.
C25_WindowTotals ==
    period.pc = "summed" =>
        /\ DOMAIN period.summary = DOMAIN period.products
        /\ \E c \in (now - 31 * TicksPerDay) .. now :
              /\ IsWindowCutoff(c, period.days, now)
              /\ \A v \in DOMAIN period.summary :
                    period.summary[v].totalSales =
                        SumOver(period.orders, CountedFacts(period.orders, v, c))

C25_Witness ==
    /\ period.pc = "summed"
    /\ period.days = 7
    /\ now = MaxClock
    /\ Len(period.orders) = 2
    /\ period.orders[1].variantId = 1
    /\ period.orders[1].createdAt = getCutoffDateUTC(7, MaxClock)
    /\ period.orders[2].variantId = 1
    /\ period.orders[2].createdAt = getCutoffDateUTC(7, MaxClock) - 1
    /\ period.summary[1].totalSales = period.orders[1].quantity

\* C26: for every window and catalog variant perDaySales = totalSales /
\* windowDays, the requested window length; with no counted order it is 0.
C26_PerDaySales ==
    period.pc = "summed" =>
        \A v \in DOMAIN period.summary :
            LET s == period.summary[v] IN
            /\ s.perDaySales.den > 0
            /\ s.perDaySales.num * period.days = s.totalSales * s.perDaySales.den
            /\ (period.orders = <<>>) => s.perDaySales.num = 0

C26_Witness ==
    /\ period.pc = "summed"
    /\ period.days = 30
    /\ Len(period.orders) = 1
    /\ period.orders[1].createdAt = MaxClock
    /\ period.orders[1].variantId = 1
    /\ period.summary[1].totalSales = MaxQty
    /\ period.summary[1].perDaySales = [num |-> MaxQty, den |-> 30]
    /\ 2 \in DOMAIN period.summary
    /\ period.summary[2].perDaySales.num = 0

-----------------------------------------------------------------------------
(* The order fetch over a date range (OrderService.getAllOrdersByRange).   *)
(* A date string is a record: the date-only form "YYYY-MM-DD" or the full  *)
(* ISO form with a time of day, the empty string of a missing parameter,   *)
(* or a string that Date cannot parse.                                     *)

MaxRangeDate == 2

\* Date.getTime() of an Invalid Date
InvalidTime == -1

EmptyString == [form |-> "empty"]
UnparsableString == [form |-> "unparsable"]

RangeDateStrings ==
    {EmptyString, UnparsableString}
        \cup [form : {"date"}, day : 1 .. MaxRangeDate]
        \cup [form : {"iso"}, day : 1 .. MaxRangeDate, tick : 0 .. (TicksPerDay - 1)]

\* new Date(string).getTime()
parseDate(string) ==
    IF string \in {EmptyString, UnparsableString} THEN InvalidTime
    ELSE IF string.form = "date" THEN string.day * TicksPerDay
    ELSE string.day * TicksPerDay + string.tick

\* Date.toISOString()
toISOString(time) ==
    [form |-> "iso", day |-> time \div TicksPerDay, tick |-> time % TicksPerDay]

\* the two parsed dates used as given
orderRangeAsGiven(parsedStart, parsedEnd) ==
    [parsedStart |-> parsedStart, parsedEnd |-> parsedEnd]

\* if ( parsedStart.getTime() > parsedEnd.getTime() ) swap through temp
orderRange(parsedStart, parsedEnd) ==
    IF parsedStart > parsedEnd
    THEN [parsedStart |-> parsedEnd, parsedEnd |-> parsedStart]
    ELSE [parsedStart |-> parsedStart, parsedEnd |-> parsedEnd]

\* the parameter checks, the parsing and the swap: an error result, or the
\* chronological pair of dates
validateRange(store, startDate, endDate) ==
    IF ~store
    THEN [status |-> "error", error |-> "Missing required parameter: store"]
    ELSE IF startDate = EmptyString \/ endDate = EmptyString
    THEN [status |-> "error", error |-> "Missing required parameters: startDate and endDate"]
    ELSE IF parseDate(startDate) = InvalidTime \/ parseDate(endDate) = InvalidTime
    THEN [status |-> "error", error |-> "Invalid date range provided",
          message |-> <<startDate, endDate>>]
    ELSE [status |-> "ok", dates |-> orderRange(parseDate(startDate), parseDate(endDate))]

\* created_at:>=normalizedStart AND created_at:<=normalizedEnd
dateQueryOf(dates) ==
    [from |-> toISOString(dates.parsedStart), to |-> toISOString(dates.parsedEnd)]

\* the orders the remote selects with the query
ordersMatching(remote, dateQuery) ==
    {t \in remote : parseDate(dateQuery.from) <= t /\ t <= parseDate(dateQuery.to)}

\* the result after the shop lookup
fetchRange(dates, shopFound, fetchFails, remote) ==
    IF ~shopFound
    THEN [status |-> "error", error |-> "Shop not found. Please complete OAuth flow first."]
    ELSE IF fetchFails
    THEN [status |-> "error", error |-> "Failed to fetch orders using GraphQL"]
    ELSE LET orders == ordersMatching(remote, dateQueryOf(dates))
         IN  [status |-> "ok", orders |-> orders, totalOrders |-> Cardinality(orders),
              range |-> [startDate |-> toISOString(dates.parsedStart),
                         endDate |-> toISOString(dates.parsedEnd)]]

getAllOrdersByRange(store, startDate, endDate, shopFound, fetchFails, remote) ==
    LET checked == validateRange(store, startDate, endDate)
    IN  IF checked.status = "error" THEN checked
        ELSE fetchRange(checked.dates, shopFound, fetchFails, remote)

\* the orders the remote holds: one at every tick of the days of the range
RemoteOrderTimes == TicksPerDay .. ((MaxRangeDate + 1) * TicksPerDay - 1)

NoQuery == [from |-> EmptyString, to |-> EmptyString]

\* entry of getAllOrdersByRange up to the shop lookup
ValidateRange ==
    /\ range.pc = "start"
    /\ LET checked == validateRange(range.store, range.startDate, range.endDate)
       IN  range' = IF checked.status = "error"
                    THEN [range EXCEPT !.pc = "done", !.result = checked]
                    ELSE [range EXCEPT !.pc = "lookup", !.dates = checked.dates]
    /\ UNCHANGED <<ledger, now, lastSync, call, calc, run, inv, pager, ocall, period, cred, syncs>>

\* shopService.findByShop answered
FindShop ==
    /\ range.pc = "lookup"
    /\ range' = IF ~range.shopFound
                THEN [range EXCEPT !.pc = "done",
                        !.result = fetchRange(range.dates, FALSE, range.fetchFails, range.remote)]
                ELSE [range EXCEPT !.pc = "fetching",
                        !.dateQuery = dateQueryOf(range.dates)]
    /\ UNCHANGED <<ledger, now, lastSync, call, calc, run, inv, pager, ocall, period, cred, syncs>>

\* fetchOrdersUsingGraphQL returned or threw
FetchRangeSettles ==
    /\ range.pc = "fetching"
    /\ range' = [range EXCEPT !.pc = "done",
                   !.result = fetchRange(range.dates, TRUE, range.fetchFails, range.remote)]
    /\ UNCHANGED <<ledger, now, lastSync, call, calc, run, inv, pager, ocall, period, cred, syncs>>

InitRange ==
    /\ ledger = EmptyMap
    /\ now = 0
    /\ lastSync = NoSync
    /\ syncs = IdleSyncs
    /\ cred = IdleCred
    /\ call = IdleCall
    /\ calc = IdleCalc
    /\ run = IdleRun
    /\ inv = IdleInv
    /\ pager = IdlePager
    /\ ocall = IdleOrderCall
    /\ period = IdlePeriod
    /\ \E store \in BOOLEAN, startDate \in RangeDateStrings, endDate \in RangeDateStrings,
          shopFound \in BOOLEAN, fetchFails \in BOOLEAN, remote \in {{}, RemoteOrderTimes} :
        range = [pc |-> "start", store |-> store, startDate |-> startDate,
                 endDate |-> endDate, shopFound |-> shopFound,
                 fetchFails |-> fetchFails, remote |-> remote,
                 dates |-> [parsedStart |-> 0, parsedEnd |-> 0],
                 dateQuery |-> NoQuery,
                 result |-> [status |-> "pending"]]

NextRange == ValidateRange \/ FindShop \/ FetchRangeSettles

SpecRange == InitRange /\ [][NextRange]_vars

-----------------------------------------------------------------------------
(* Properties of the order range fetch, under SpecRange *)

BothDatesParse ==
    /\ range.store
    /\ parseDate(range.startDate) # InvalidTime
    /\ parseDate(range.endDate) # InvalidTime

\* C28: the order range fetch is symmetric in its two dates: whenever both
\* parse, the query sent has start <= end, and the finished call reports the
\* same result and range as the call with the two dates swapped.
C28_RangeSymmetric ==
    /\ (range.pc = "fetching" /\ BothDatesParse) =>
          /\ parseDate(range.dateQuery.from) <= parseDate(range.dateQuery.to)
          /\ parseDate(range.dateQuery.from) \in
                {parseDate(range.startDate), parseDate(range.endDate)}
          /\ parseDate(range.dateQuery.to) \in
                {parseDate(range.startDate), parseDate(range.endDate)}
    /\ (range.pc = "done" /\ BothDatesParse) =>
          /\ range.result = getAllOrdersByRange(range.store, range.endDate, range.startDate,
                                range.shopFound, range.fetchFails, range.remote)
          /\ range.result.status = "ok" =>
                /\ parseDate(range.result.range.startDate)
                      <= parseDate(range.result.range.endDate)
                /\ range.result.orders =
                      {t \in range.remote :
                          \E a \in {range.startDate, range.endDate} :
                          \E b \in {range.startDate, range.endDate} :
                             parseDate(a) <= t /\ t <= parseDate(b)}

C28_Witness ==
    /\ range.pc = "done"
    /\ range.result.status = "ok"
    /\ parseDate(range.startDate) > parseDate(range.endDate)
    /\ range.result.totalOrders >= 2
    /\ range.result.range.startDate = toISOString(parseDate(range.endDate))

-----------------------------------------------------------------------------
(* The credential of a shop: the stored shop document (ShopService), the   *)
(* in-memory shopCache of ProductService and the handlers that change the  *)
(* credential. The clock counts minutes. A token 0 stands for no shop.     *)

MaxTokens == 2
MaxCredClock == 7

\* 5 * 60 * 1000 ms, in minutes
CACHE_TTL == 5

NoEntry == [data |-> 0, timestamp |-> 0]

IdleLookup == [pc |-> "idle", read |-> 0, result |-> 0, quiet |-> FALSE]

\* the cached entry is used: !(!shop || Date.now() - timestamp > CACHE_TTL)
cacheHit(entry, clock) ==
    entry.data # 0 /\ ~(clock - entry.timestamp > CACHE_TTL)

\* shopCache.delete(cacheKey)
clearShopCache(cache) == NoEntry

\* a credential change while a lookup runs, or after it returned
disturb(lookup) ==
    IF lookup.pc = "returned" THEN IdleLookup
    ELSE [lookup EXCEPT !.quiet = FALSE]

\* time passes
CredTick ==
    /\ cred.clock < MaxCredClock
    /\ cred' = [cred EXCEPT !.clock = cred.clock + 1]
    /\ UNCHANGED <<ledger, now, lastSync, call, calc, run, inv, pager, ocall, period, range, syncs>>

\* oauthRedirect: shopService.upsertShop resolved with the new access token
InstallUpsert ==
    /\ cred.install = "idle"
    /\ \E token \in 1 .. MaxTokens :
        /\ token # cred.db
        /\ cred' = [cred EXCEPT !.db = token, !.install = "upserted",
                                !.lookup = disturb(cred.lookup)]
    /\ UNCHANGED <<ledger, now, lastSync, call, calc, run, inv, pager, ocall, period, range, syncs>>

\* oauthRedirect: productService.clearShopCache(shopDomain)
InstallClearCache ==
    /\ cred.install = "upserted"
    /\ cred' = [cred EXCEPT !.cache = clearShopCache(cred.cache), !.install = "idle",
                            !.lookup = disturb(cred.lookup)]
    /\ UNCHANGED <<ledger, now, lastSync, call, calc, run, inv, pager, ocall, period, range, syncs>>

\* handleAppUninstall: shopService.deleteShop resolved
Uninstall ==
    /\ cred.db # 0
    /\ cred' = [cred EXCEPT !.db = 0, !.lookup = disturb(cred.lookup)]
    /\ UNCHANGED <<ledger, now, lastSync, call, calc, run, inv, pager, ocall, period, range, syncs>>

\* getShop up to its await: the cached shop returned, or findByShop sent
GetShopStart ==
    /\ cred.lookup.pc \in {"idle", "returned"}
    /\ cred' = [cred EXCEPT !.lookup =
                  IF cacheHit(cred.cache, cred.clock)
                  THEN [pc |-> "returned", read |-> 0, result |-> cred.cache.data,
                        quiet |-> cred.install = "idle"]
                  ELSE [pc |-> "reading", read |-> 0, result |-> 0,
                        quiet |-> cred.install = "idle"]]
    /\ UNCHANGED <<ledger, now, lastSync, call, calc, run, inv, pager, ocall, period, range, syncs>>

\* shopModel.findOne runs on the store
GetShopRead ==
    /\ cred.lookup.pc = "reading"
    /\ cred' = [cred EXCEPT !.lookup.pc = "read", !.lookup.read = cred.db]
    /\ UNCHANGED <<ledger, now, lastSync, call, calc, run, inv, pager, ocall, period, range, syncs>>

\* getShop after its await: if (shop) shopCache.set(...); return shop
GetShopFinish ==
    /\ cred.lookup.pc = "read"
    /\ cred' = [cred EXCEPT
                  !.cache = IF cred.lookup.read # 0
                            THEN [data |-> cred.lookup.read, timestamp |-> cred.clock]
                            ELSE cred.cache,
                  !.lookup.pc = "returned",
                  !.lookup.result = cred.lookup.read]
    /\ UNCHANGED <<ledger, now, lastSync, call, calc, run, inv, pager, ocall, period, range, syncs>>

InitCred ==
    /\ ledger = EmptyMap
    /\ now = 0
    /\ lastSync = NoSync
    /\ syncs = IdleSyncs
    /\ call = IdleCall
    /\ calc = IdleCalc
    /\ run = IdleRun
    /\ inv = IdleInv
    /\ pager = IdlePager
    /\ ocall = IdleOrderCall
    /\ period = IdlePeriod
    /\ range = IdleRange
    /\ \E token \in 0 .. MaxTokens :
        cred = [pc |-> "running", db |-> token, cache |-> NoEntry, clock |-> 0,
                install |-> "idle", lookup |-> IdleLookup]

NextCred ==
    \/ CredTick
    \/ InstallUpsert
    \/ InstallClearCache
    \/ Uninstall
    \/ GetShopStart
    \/ GetShopRead
    \/ GetShopFinish

SpecCred == InitCred /\ [][NextCred]_vars

-----------------------------------------------------------------------------
(* Properties of the credential lookup, under SpecCred *)

\* C32: a credential lookup that starts after every change of the credential
\* has completed, and returns before the next one, returns the stored state:
\* the stored access token, or no shop after an uninstall.
C32_LookupSeesStoredCredential ==
    (cred.lookup.pc = "returned" /\ cred.lookup.quiet) =>
        cred.lookup.result = cred.db

-----------------------------------------------------------------------------
(* Two catalog syncs of one store side by side. Each persisting sync reads *)
(* the existing records (an await), builds its bulk operations from what   *)
(* it read, and submits them (a second await); nothing orders the steps of *)
(* one sync against those of the other.                                    *)

MaxSyncRounds == 2

SyncProcs == {1, 2}

IdleSync == [pc |-> "idle", variantMap |-> EmptyMap, rounds |-> 0,
             ops |-> [updates |-> EmptyMap, variantsToDelete |-> {}]]

\* persistInventoryForProducts up to its first await
BeginSync(p) ==
    /\ syncs[p].pc = "idle"
    /\ syncs[p].rounds < MaxSyncRounds
    /\ \E snapshot \in Snapshots(LedgerVariants) :
        LET variantMap == extractVariants(snapshot)
        IN  syncs' = [syncs EXCEPT ![p] =
                IF DOMAIN variantMap = {}
                THEN [@ EXCEPT !.rounds = @ + 1]
                ELSE [@ EXCEPT !.pc = "reading", !.variantMap = variantMap,
                               !.rounds = @ + 1]]
    /\ UNCHANGED <<ledger, now, lastSync, call, calc, run, inv, pager, ocall, period, range, cred>>

\* trackIncomingModel.find resolved; the bulk operations are built from it
ReadExisting(p) ==
    /\ syncs[p].pc = "reading"
    /\ LET existingMap == fetchExistingVariantMap(DOMAIN syncs[p].variantMap, ledger)
           ops == buildBulkOperations(syncs[p].variantMap, existingMap, now)
       IN  syncs' = [syncs EXCEPT ![p] =
                IF DOMAIN ops.updates = {} /\ ops.variantsToDelete = {}
                THEN [@ EXCEPT !.pc = "idle", !.variantMap = EmptyMap]
                ELSE [@ EXCEPT !.pc = "writing", !.ops = ops]]
    /\ UNCHANGED <<ledger, now, lastSync, call, calc, run, inv, pager, ocall, period, range, cred>>

\* trackIncomingModel.bulkWrite applied; with one variant a sync submits one
\* operation, which the store applies atomically
WriteBulk(p) ==
    /\ syncs[p].pc = "writing"
    /\ ledger' = bulkWrite(ledger, syncs[p].ops, {}, FALSE)
    /\ syncs' = [syncs EXCEPT ![p] = [IdleSync EXCEPT !.rounds = syncs[p].rounds]]
    /\ UNCHANGED <<now, lastSync, call, calc, run, inv, pager, ocall, period, range, cred>>

InitSyncs ==
    /\ ledger = EmptyMap
    /\ now = 0
    /\ lastSync = NoSync
    /\ call = IdleCall
    /\ calc = IdleCalc
    /\ run = IdleRun
    /\ inv = IdleInv
    /\ pager = IdlePager
    /\ ocall = IdleOrderCall
    /\ period = IdlePeriod
    /\ range = IdleRange
    /\ cred = IdleCred
    /\ syncs = [p \in SyncProcs |-> IdleSync]

NextSyncs ==
    \/ \E p \in SyncProcs : BeginSync(p)
    \/ \E p \in SyncProcs : ReadExisting(p)
    \/ \E p \in SyncProcs : WriteBulk(p)

SpecSyncs == InitSyncs /\ [][NextSyncs]_vars

-----------------------------------------------------------------------------
(* Properties of two syncs side by side, under SpecSyncs *)

\* C33: when two syncs of one store have run side by side and both have
\* finished, every ledger record still has history quantities that sum to its
\* incoming field.
C33_ConcurrentSyncsKeepSum ==
    (\A p \in SyncProcs : syncs[p].pc = "idle") =>
        \A v \in DOMAIN ledger :
            SumQuantity(ledger[v].incomingHistory) = ledger[v].incoming

-----------------------------------------------------------------------------
(* getAllProducts in skip-inventory-fetch mode, with and without the       *)
(* persisting step, among ordinary catalog syncs.                          *)

\* the catalogs of the ledger's variants: variant -> inventory_item_id
SkipCatalogs == UNION {[S -> {0, 1}] : S \in SUBSET LedgerVariants}

\* the variants handed to persistInventoryForProducts
snapshotOfVariants(catalog, variants) ==
    [v \in DOMAIN catalog |->
        [inventoryItemId |-> catalog[v], incoming |-> variants[v].incoming]]

\* getAllProducts(store, status, true, skipPersist)
SkipFetchSync ==
    \E catalog \in SkipCatalogs, skipPersist \in BOOLEAN :
        LET snapshot == snapshotOfVariants(catalog, skipInventoryFetch(catalog))
        IN  /\ ledger' = IF skipPersist THEN ledger
                         ELSE persistInventoryForProducts(ledger, snapshot, now, {}, FALSE)
            /\ lastSync' = [snapshot |-> snapshot, before |-> ledger, at |-> now,
                            failedUpdates |-> {}, deleteFails |-> FALSE, count |-> 1,
                            skipped |-> TRUE]
            /\ UNCHANGED <<now, call, calc, run, inv, pager, ocall, period, range, cred, syncs>>

NextSkipSync == Sync \/ Tick \/ SkipFetchSync

SpecSkipSync == InitLedger /\ [][NextSkipSync]_vars

-----------------------------------------------------------------------------
(* Properties of the skip-inventory-fetch mode, under SpecSkipSync *)

\* C35: a catalog fetch in skip-inventory-fetch mode leaves every ledger
\* record unchanged, whatever the value of skipPersist.
C35_SkipModeLeavesLedger ==
    (lastSync.count = 1 /\ lastSync.skipped) => ledger = lastSync.before

====
